---- MODULE Spec2Model ----
(***************************************************************************)
(* Gesture pipeline of interactive-brain: HandTracker -> GestureRecognizer *)
(* -> GestureControls -> BrainModel, driven by the two requestAnimation-   *)
(* Frame loops of main.js.                                                 *)
(*                                                                         *)
(* Numbers.  JavaScript doubles are modelled as fixed-point integers:      *)
(*   - every continuous quantity (positions, distances, angles, angular    *)
(*     velocities, explosion amounts, scores, confidences) is in           *)
(*     millionths (Micro == 1.0);                                          *)
(*   - finger curls and the normalised pinch distance are in hundredths;   *)
(*   - times are milliseconds, as Date.now() returns them.                 *)
(* A product with a decimal factor is Scale(x, n, d) = x*n/d truncated     *)
(* toward zero, so a filter step may differ from the double by less than   *)
(* one millionth.                                                          *)
(*                                                                         *)
(* A hand is given by the features recognize() derives from its 21         *)
(* landmarks (palm centre, curls, thumb flag, pinch distance, the two axis *)
(* angles); a nullable field is a sequence of length 0 or 1.               *)
(***************************************************************************)
EXTENDS Integers, Sequences, FiniteSets, TLC

VARIABLES
    now,                \* wall clock, Date.now() / performance.now(), ms
    recognizer,         \* the GestureRecognizer instance
    controls,           \* the GestureControls instance
    brain,              \* the BrainModel instance
    tracker,            \* the HandTracker instance (throttle state)
    latestGestureData,  \* main.js: the sample waiting for the render loop
    renderClock,        \* main.js: THREE.Clock of the render loop (last tick, ms)
    rafTurn,            \* which requestAnimationFrame callback runs next
    ticks,              \* number of tracker callbacks run so far
    obs,                \* observer: what the last Controller update did
    replay,             \* a second, fresh GestureRecognizer fed the same frames
    thrown              \* an exception escaped recognize (and so _detect)

vars == << now, recognizer, controls, brain, tracker, latestGestureData,
           renderClock, rafTurn, ticks, obs, replay, thrown >>

----------------------------------------------------------------------------
(* Arithmetic *)

Micro == 1000 * 1000

Abs(x) == IF x < 0 THEN -x ELSE x

Min(a, b) == IF a < b THEN a ELSE b

Max(a, b) == IF a > b THEN a ELSE b

Scale(x, n, d) == IF x >= 0 THEN (x * n) \div d ELSE -(((-x) * n) \div d)

clamp(value, lo, hi) == Max(lo, Min(hi, value))

PI == 3141593

\* wrapAngleDelta without the two corrections: the raw difference.
wrapAngleDelta_NoWrap(delta) == delta

wrapAngleDelta(delta) ==
    LET d1 == IF delta > PI THEN delta - 2 * PI ELSE delta
    IN  IF d1 < -PI THEN d1 + 2 * PI ELSE d1

RECURSIVE SumSeq(_)
SumSeq(s) == IF s = << >> THEN 0 ELSE Head(s) + SumSeq(Tail(s))

RECURSIVE SqrtIter(_, _, _)
SqrtIter(n, lo, hi) ==
    IF lo >= hi THEN lo
    ELSE LET mid == (lo + hi + 1) \div 2
         IN  IF mid * mid <= n THEN SqrtIter(n, mid, hi)
                               ELSE SqrtIter(n, lo, mid - 1)

ISqrt(n) == SqrtIter(n, 0, 46340)

\* The k-th smallest element of a sequence of numbers (k from 1).
Sorted(values) ==
    LET n == Len(values)
        rank(i) == Cardinality({j \in 1..n :
                       values[j] < values[i] \/ (values[j] = values[i] /\ j < i)})
    IN  [k \in 1..n |-> values[CHOOSE i \in 1..n : rank(i) = k - 1]]

median(values) ==
    IF Len(values) = 0 THEN 0
    ELSE LET sorted == Sorted(values)
             mid == Len(values) \div 2
         IN  IF Len(values) % 2 = 0
             THEN Scale(sorted[mid] + sorted[mid + 1], 1, 2)
             ELSE sorted[mid + 1]

\* Population standard deviation, the squares taken in units of `unit`
\* millionths so that seven of them fit a 32-bit integer.
stdDevIn(values, avg, unit) ==
    unit * ISqrt(SumSeq([i \in 1..Len(values) |->
                           Scale(values[i] - avg, 1, unit) * Scale(values[i] - avg, 1, unit)])
                 \div Len(values))

Spread(values, avg) == {Abs(values[i] - avg) : i \in 1..Len(values)}

\* Units of 1e-4 for deviations up to 1.75, of 1e-3 beyond (up to 2 pi).
stdDevAround(values, avg) ==
    IF \A d \in Spread(values, avg) : d <= 1750000
    THEN stdDevIn(values, avg, 100)
    ELSE stdDevIn(values, avg, 1000)

stdDev(values) ==
    IF Len(values) <= 1 THEN 0
    ELSE stdDevAround(values, Scale(SumSeq(values), 1, Len(values)))

----------------------------------------------------------------------------
(* Gesture labels *)

Swipes == {"swipe_left", "swipe_right"}

Gestures == {"none", "pinch", "fist", "point", "open_palm", "twist_pose",
             "spread", "squeeze"} \cup Swipes

STABILITY_BUFFER_SIZE == 5

PalmHistoryMax == 20

AngleHistoryMax == 7

----------------------------------------------------------------------------
(* GestureRecognizer *)

NewRecognizer ==
    [ gestureBuffer |-> << >>,
      palmHistory |-> << >>,
      lastSwipeTime |-> 0,
      smoothTwoHandDist |-> << >>,
      prevHandAngle |-> << >>,
      angleDeltaHistory |-> << >>,
      filteredHandAngleDelta |-> 0,
      prevPinchAxisAngle |-> << >>,
      filteredPinchAxisDelta |-> 0,
      twistPoseActive |-> FALSE,
      lastStableGesture |-> "none" ]

EmptyOutput ==
    [ gesture |-> "none", confidence |-> 0,
      handPosition |-> << >>, palmDelta |-> << >>,
      handAngle |-> 0, handAngleDelta |-> 0, rawHandAngleDelta |-> 0,
      twistPoseScore |-> 0, twistPoseActive |-> FALSE,
      handsDetected |-> 0,
      twoHandDistance |-> << >>, twoHandDelta |-> 0,
      fingerCurls |-> << >> ]

\* resetOnLoss without line 172: the stabilization buffer survives the loss.
resetOnLoss_KeepBuffer(r) ==
    [r EXCEPT !.palmHistory = << >>,
              !.smoothTwoHandDist = << >>,
              !.prevHandAngle = << >>,
              !.angleDeltaHistory = << >>,
              !.filteredHandAngleDelta = 0,
              !.prevPinchAxisAngle = << >>,
              !.filteredPinchAxisDelta = 0,
              !.twistPoseActive = FALSE]

\* recognize(), the branch taken when there is no hand.
resetOnLoss(r) ==
    [r EXCEPT !.palmHistory = << >>,
              !.smoothTwoHandDist = << >>,
              !.gestureBuffer = << >>,
              !.prevHandAngle = << >>,
              !.angleDeltaHistory = << >>,
              !.filteredHandAngleDelta = 0,
              !.prevPinchAxisAngle = << >>,
              !.filteredPinchAxisDelta = 0,
              !.twistPoseActive = FALSE]

\* recognize(): palm delta from the previous history entry.
palmDeltaOf(history, lm, t) ==
    IF Len(history) > 0
    THEN LET prev == history[Len(history)]
             dt == t - prev.time
         IN  IF dt > 0 /\ dt < 200
             THEN << [dx |-> lm.x - prev.x, dy |-> lm.y - prev.y] >>
             ELSE << >>
    ELSE << >>

\* pushPalm without the shift of line 205.
pushPalm_NoEvict(history, lm, t) ==
    Append(history, [x |-> lm.x, y |-> lm.y, time |-> t])

\* recognize(): push onto the palm ring, keeping the last 20 entries.
pushPalm(history, lm, t) ==
    LET pushed == Append(history, [x |-> lm.x, y |-> lm.y, time |-> t])
    IN  IF Len(pushed) > PalmHistoryMax THEN Tail(pushed) ELSE pushed

isExtended(curl) == curl < 40

extendedCount(lm) ==
    Cardinality({f \in {"thumb", "index", "middle", "ring", "pinky"} :
        CASE f = "thumb" -> lm.thumbExt
          [] f = "index" -> isExtended(lm.indexCurl)
          [] f = "middle" -> isExtended(lm.middleCurl)
          [] f = "ring" -> isExtended(lm.ringCurl)
          [] f = "pinky" -> isExtended(lm.pinkyCurl)})

\* Twist pose score in millionths: 0.34 + 0.34 + 0.18 * mean(curls) + 0.18.
twistPoseScore(lm) ==
    LET thumbReady == lm.thumbExt \/ lm.pinchDist < 72
        indexReady == isExtended(lm.indexCurl) \/ lm.indexCurl < 55
    IN  clamp((IF thumbReady THEN 340000 ELSE 0)
              + (IF indexReady THEN 340000 ELSE 0)
              + 600 * (lm.middleCurl + lm.ringCurl + lm.pinkyCurl)
              + (IF lm.pinchDist < 55 THEN 180000 ELSE 0),
              0, Micro)

twistPoseEnterThreshold == 580000

twistPoseExitThreshold == 420000

\* Mutant of twistHysteresis: one threshold, no band.
twistHysteresis_NoBand(active, score) == score >= twistPoseEnterThreshold

twistHysteresis(active, score) ==
    IF ~active /\ score >= twistPoseEnterThreshold THEN TRUE
    ELSE IF active /\ score < twistPoseExitThreshold THEN FALSE
    ELSE active

\* recognize() works on x = [r: the recognizer, out: the GestureSample being
\* built], one part of the method after the other.

\* Palm centre, palm delta from the previous history entry, palm ring, curls.
trackPalm(x, lm, t) ==
    [x EXCEPT !.out.handsDetected = lm.n,
              !.out.handPosition = << [x |-> lm.x, y |-> lm.y] >>,
              !.out.palmDelta = palmDeltaOf(x.r.palmHistory, lm, t),
              !.r.palmHistory = pushPalm(@, lm, t),
              !.out.fingerCurls = << [index |-> lm.indexCurl, middle |-> lm.middleCurl,
                                      ring |-> lm.ringCurl, pinky |-> lm.pinkyCurl,
                                      thumbExtended |-> lm.thumbExt] >>]

\* Twist pose scoring + hysteresis.
scoreTwist(x, score) ==
    [x EXCEPT !.out.twistPoseScore = score,
              !.r.twistPoseActive = twistHysteresis(@, score),
              !.out.twistPoseActive = twistHysteresis(x.r.twistPoseActive, score)]

palmAxisDelta(r, lm) == wrapAngleDelta(lm.handAngle - r.prevHandAngle[1])

pinchAxisDelta(r, lm) ==
    IF r.prevPinchAxisAngle # << >>
    THEN wrapAngleDelta(lm.pinchAxisAngle - r.prevPinchAxisAngle[1])
    ELSE 0

\* Blend of the two axes: the closer thumb and index, the more pinch axis.
blendAxes(palmDelta, pinchDelta, blend) ==
    Scale(palmDelta * (35 - blend) + pinchDelta * blend, 1, 35)

pushAngleDelta(history, rawDelta) ==
    IF Len(history) + 1 > AngleHistoryMax
    THEN Tail(Append(history, rawDelta))
    ELSE Append(history, rawDelta)

\* Outliers are replaced by the median.
rejectOutlier(rawDelta, med, sigma) ==
    IF Abs(rawDelta - med) > Max(80000, sigma * 3) THEN med ELSE rawDelta

\* Adaptive dead zone: 0.002 + min(0.02, 1.6 sigma).
deadZone(delta, sigma) ==
    IF Abs(delta) > 2000 + Min(20000, Scale(sigma, 16, 10)) THEN delta ELSE 0

cleanedDelta(rawDelta, history) ==
    deadZone(rejectOutlier(rawDelta, median(history), stdDev(history)), stdDev(history))

\* The smoothed pinch-axis delta and the raw blended delta of this frame.
rawAngle(x, lm, filteredPinch) ==
    [x EXCEPT !.r.filteredPinchAxisDelta = filteredPinch,
              !.out.rawHandAngleDelta =
                  blendAxes(palmAxisDelta(x.r, lm), filteredPinch,
                            clamp(75 - lm.pinchDist, 0, 35))]

pushRawAngle(x) ==
    [x EXCEPT !.r.angleDeltaHistory = pushAngleDelta(@, x.out.rawHandAngleDelta)]

lowPass(x, cleaned) ==
    [x EXCEPT !.r.filteredHandAngleDelta = @ + Scale(cleaned - @, 34, 100)]

emitAngle(x, lm) ==
    [x EXCEPT !.out.handAngleDelta = x.r.filteredHandAngleDelta,
              !.out.handAngle = lm.handAngle,
              !.r.prevHandAngle = << lm.handAngle >>,
              !.r.prevPinchAxisAngle = << lm.pinchAxisAngle >>]

filterRawAngle(x) ==
    lowPass(x, cleanedDelta(x.out.rawHandAngleDelta, x.r.angleDeltaHistory))

\* The dual-axis angle delta and its robust filter.  Without a previous hand
\* angle both deltas of the sample are 0 and the filter state is untouched.
angleFilter(x, lm) ==
    IF x.r.prevHandAngle # << >>
    THEN emitAngle(
           filterRawAngle(
             pushRawAngle(
               rawAngle(x, lm,
                        x.r.filteredPinchAxisDelta
                          + Scale(pinchAxisDelta(x.r, lm) - x.r.filteredPinchAxisDelta,
                                  35, 100)))),
           lm)
    ELSE [x EXCEPT !.out.handAngle = lm.handAngle,
                   !.r.prevHandAngle = << lm.handAngle >>,
                   !.r.prevPinchAxisAngle = << lm.pinchAxisAngle >>]

\* classify with the twist pose tested before the fist.
classify_TwistFirst(lm, twistActive) ==
    LET indexExtended == isExtended(lm.indexCurl)
        middleExtended == isExtended(lm.middleCurl)
        ringExtended == isExtended(lm.ringCurl)
        pinkyExtended == isExtended(lm.pinkyCurl)
        count == extendedCount(lm)
    IN  IF lm.pinchDist < 35 /\ lm.middleCurl > 30
        THEN [gesture |-> "pinch",
              confidence |-> Max(0, Micro - Scale(lm.pinchDist, Micro, 35))]
        ELSE IF twistActive
        THEN [gesture |-> "twist_pose", confidence |-> twistPoseScore(lm)]
        ELSE IF count <= 1 /\ ~indexExtended /\ ~middleExtended /\ ~ringExtended
        THEN [gesture |-> "fist", confidence |-> Micro - Scale(count, Micro, 5)]
        ELSE IF indexExtended /\ ~middleExtended /\ ~ringExtended /\ ~pinkyExtended
        THEN [gesture |-> "point", confidence |-> 900000]
        ELSE IF count >= 3
        THEN [gesture |-> "open_palm", confidence |-> Scale(count, Micro, 5)]
        ELSE [gesture |-> "none", confidence |-> 0]

\* classify with the twist pose tested after point and open palm.
classify_TwistLast(lm, twistActive) ==
    LET indexExtended == isExtended(lm.indexCurl)
        middleExtended == isExtended(lm.middleCurl)
        ringExtended == isExtended(lm.ringCurl)
        pinkyExtended == isExtended(lm.pinkyCurl)
        count == extendedCount(lm)
    IN  IF lm.pinchDist < 35 /\ lm.middleCurl > 30
        THEN [gesture |-> "pinch",
              confidence |-> Max(0, Micro - Scale(lm.pinchDist, Micro, 35))]
        ELSE IF count <= 1 /\ ~indexExtended /\ ~middleExtended /\ ~ringExtended
        THEN [gesture |-> "fist", confidence |-> Micro - Scale(count, Micro, 5)]
        ELSE IF indexExtended /\ ~middleExtended /\ ~ringExtended /\ ~pinkyExtended
        THEN [gesture |-> "point", confidence |-> 900000]
        ELSE IF count >= 3
        THEN [gesture |-> "open_palm", confidence |-> Scale(count, Micro, 5)]
        ELSE IF twistActive
        THEN [gesture |-> "twist_pose", confidence |-> twistPoseScore(lm)]
        ELSE [gesture |-> "none", confidence |-> 0]

\* Single-hand classification, first match wins.
classify(lm, twistActive) ==
    LET indexExtended == isExtended(lm.indexCurl)
        middleExtended == isExtended(lm.middleCurl)
        ringExtended == isExtended(lm.ringCurl)
        pinkyExtended == isExtended(lm.pinkyCurl)
        count == extendedCount(lm)
    IN  IF lm.pinchDist < 35 /\ lm.middleCurl > 30
        THEN [gesture |-> "pinch",
              confidence |-> Max(0, Micro - Scale(lm.pinchDist, Micro, 35))]
        ELSE IF count <= 1 /\ ~indexExtended /\ ~middleExtended /\ ~ringExtended
        THEN [gesture |-> "fist", confidence |-> Micro - Scale(count, Micro, 5)]
        ELSE IF twistActive
        THEN [gesture |-> "twist_pose", confidence |-> twistPoseScore(lm)]
        ELSE IF indexExtended /\ ~middleExtended /\ ~ringExtended /\ ~pinkyExtended
        THEN [gesture |-> "point", confidence |-> 900000]
        ELSE IF count >= 3
        THEN [gesture |-> "open_palm", confidence |-> Scale(count, Micro, 5)]
        ELSE [gesture |-> "none", confidence |-> 0]

\* Mutant of SwipeCooldown: a shorter cooldown.
SwipeCooldown_Short == 6 * 100

SwipeCooldown == 700

\* The palm entries of the last 250 ms.
recentPalms(history, t) == SelectSeq(history, LAMBDA p : p.time >= t - 250)

\* |dx / (dt / 1000)| > 0.8 and |dy| < 0.5 |dx| over at least 50 ms.
isSwipe(dx, dy, dt) ==
    dt >= 50 /\ Abs(dx) * 1000 > 800000 * dt /\ 2 * Abs(dy) < Abs(dx)

swipeBetween(r, t, first, last) ==
    IF isSwipe(last.x - first.x, last.y - first.y, last.time - first.time)
    THEN [swipe |-> << IF last.x - first.x > 0 THEN "swipe_right" ELSE "swipe_left" >>,
          r |-> [r EXCEPT !.lastSwipeTime = t, !.palmHistory = << >>]]
    ELSE [swipe |-> << >>, r |-> r]

swipeIn(r, t, recent) ==
    IF Len(recent) < 4 THEN [swipe |-> << >>, r |-> r]
    ELSE swipeBetween(r, t, recent[1], recent[Len(recent)])

\* _detectSwipe(): << >> when nothing fires, else the label; fires clear the ring.
detectSwipe(r, t) ==
    IF t - r.lastSwipeTime < SwipeCooldown THEN [swipe |-> << >>, r |-> r]
    ELSE IF Len(r.palmHistory) < 5 THEN [swipe |-> << >>, r |-> r]
    ELSE swipeIn(r, t, recentPalms(r.palmHistory, t))

\* Object.entries(counts) lists the labels in order of first occurrence; the
\* first label with the strictly largest count wins.
CountOf(buffer, g) == Cardinality({i \in DOMAIN buffer : buffer[i] = g})

FirstIndexOf(buffer, g) == CHOOSE i \in DOMAIN buffer :
    buffer[i] = g /\ \A j \in DOMAIN buffer : buffer[j] = g => i <= j

mostCommon(buffer) ==
    LET present == {buffer[i] : i \in DOMAIN buffer}
    IN  CHOOSE g \in present : \A h \in present :
            \/ CountOf(buffer, h) < CountOf(buffer, g)
            \/ CountOf(buffer, h) = CountOf(buffer, g)
               /\ FirstIndexOf(buffer, g) <= FirstIndexOf(buffer, h)

\* Mutant of stabilityThreshold: four of five.
stabilityThreshold_Four == (STABILITY_BUFFER_SIZE * 8 + 9) \div 10

\* Math.ceil(STABILITY_BUFFER_SIZE * 0.6)
stabilityThreshold == (STABILITY_BUFFER_SIZE * 6 + 9) \div 10

highPriority == {"pinch", "fist", "spread", "squeeze", "swipe_left", "swipe_right"}

pushGesture(buffer, g) ==
    IF Len(buffer) + 1 > STABILITY_BUFFER_SIZE
    THEN Tail(Append(buffer, g))
    ELSE Append(buffer, g)

\* The most common label if it reaches the threshold, else the last stable one.
voted(buffer, best, last) ==
    IF CountOf(buffer, best) >= stabilityThreshold THEN best ELSE last

\* stableLabel without the twist-pose override of lines 421-424.
stableLabel_VoteOnly(r, rawGesture, buffer) ==
    IF rawGesture \in Swipes THEN rawGesture
    ELSE voted(buffer, mostCommon(buffer), r.lastStableGesture)

stableLabel(r, rawGesture, buffer) ==
    IF r.twistPoseActive /\ rawGesture \notin highPriority THEN "twist_pose"
    ELSE IF rawGesture \in Swipes THEN rawGesture
    ELSE voted(buffer, mostCommon(buffer), r.lastStableGesture)

stabilized(r, output, buffer, gesture) ==
    [ r |-> [r EXCEPT !.gestureBuffer = buffer, !.lastStableGesture = gesture],
      out |-> [output EXCEPT !.gesture = gesture] ]

stabilizeIn(r, rawGesture, output, buffer) ==
    stabilized(r, output, buffer, stableLabel(r, rawGesture, buffer))

stabilize(r, rawGesture, output) ==
    stabilizeIn(r, rawGesture, output, pushGesture(r.gestureBuffer, rawGesture))

twoHandSmoothing == 30

\* Two hands: EMA of the wrist distance and its change.
twoHandDistance(x, smooth) ==
    [x EXCEPT !.out.twoHandDelta =
                  IF x.r.smoothTwoHandDist # << >>
                  THEN smooth - x.r.smoothTwoHandDist[1] ELSE 0,
              !.out.twoHandDistance = << smooth >>,
              !.r.smoothTwoHandDist = << smooth >>]

\* twoHands without the else branch of lines 333-335: the smoothed distance
\* survives frames with one hand.
twoHands_KeepOnLoss(x, lm) ==
    IF lm.n >= 2
    THEN twoHandDistance(x,
           IF x.r.smoothTwoHandDist = << >> THEN lm.rawDist
           ELSE x.r.smoothTwoHandDist[1]
                + Scale(lm.rawDist - x.r.smoothTwoHandDist[1], twoHandSmoothing, 100))
    ELSE x

twoHands(x, lm) ==
    IF lm.n >= 2
    THEN twoHandDistance(x,
           IF x.r.smoothTwoHandDist = << >> THEN lm.rawDist
           ELSE x.r.smoothTwoHandDist[1]
                + Scale(lm.rawDist - x.r.smoothTwoHandDist[1], twoHandSmoothing, 100))
    ELSE [x EXCEPT !.r.smoothTwoHandDist = << >>]

\* One hand: the swipe, if one fires, overrides the classification.
oneHand(x, single, sw) ==
    stabilize(sw.r,
              IF sw.swipe # << >> THEN sw.swipe[1] ELSE single.gesture,
              [x.out EXCEPT !.confidence =
                  IF sw.swipe # << >> THEN 850000 ELSE single.confidence])

\* label without the sign test of line 329: every two-hand movement is a spread.
label_SpreadOnly(x, lm, t) ==
    IF lm.n >= 2 /\ Abs(x.out.twoHandDelta) > 3000
    THEN stabilize(x.r, "spread",
                   [x.out EXCEPT !.confidence = Min(Micro, Abs(x.out.twoHandDelta) * 15)])
    ELSE oneHand(x, classify(lm, x.r.twistPoseActive), detectSwipe(x.r, t))

label(x, lm, t) ==
    IF lm.n >= 2 /\ Abs(x.out.twoHandDelta) > 3000
    THEN stabilize(x.r,
                   IF x.out.twoHandDelta > 0 THEN "spread" ELSE "squeeze",
                   [x.out EXCEPT !.confidence = Min(Micro, Abs(x.out.twoHandDelta) * 15)])
    ELSE oneHand(x, classify(lm, x.r.twistPoseActive), detectSwipe(x.r, t))

\* recognize(results) at wall-clock time t: the recognizer afterwards and the
\* GestureSample returned.
recognize(r, lm, t) ==
    IF lm.n = 0 THEN [r |-> resetOnLoss(r), out |-> EmptyOutput]
    ELSE label(
           twoHands(
             angleFilter(
               scoreTwist(trackPalm([r |-> r, out |-> EmptyOutput], lm, t),
                          twistPoseScore(lm)),
               lm),
             lm),
           lm, t)

----------------------------------------------------------------------------
(* BrainModel *)

RegionCount == 13

NewBrain ==
    [ selectedIndex |-> -1,
      selectedId |-> << >>,          \* << >> is null, << i >> is regionList[i]
      explosionAmount |-> 0,
      targetExplosion |-> 0,
      targetRotationY |-> 0,
      targetRotationX |-> 0,
      isIdle |-> TRUE,
      rotationX |-> 0,               \* group.rotation.x
      rotationY |-> 0 ]              \* group.rotation.y

setExplosion(b, amount) == [b EXCEPT !.targetExplosion = Max(0, Min(Micro, amount))]

\* addExplosion without the clamp of line 83.
addExplosion_NoClamp(b, delta) ==
    [b EXCEPT !.targetExplosion = b.targetExplosion + delta]

addExplosion(b, delta) ==
    [b EXCEPT !.targetExplosion = Max(0, Min(Micro, b.targetExplosion + delta))]

highlightRegion(b, regionId) ==
    [b EXCEPT !.selectedId = regionId,
              !.selectedIndex = IF regionId # << >> THEN regionId[1] ELSE -1]

selectNext(b) ==
    IF RegionCount = 0 THEN b
    ELSE highlightRegion(b, << (b.selectedIndex + 1) % RegionCount >>)

selectPrevious(b) ==
    IF RegionCount = 0 THEN b
    ELSE highlightRegion(b, << (b.selectedIndex - 1 + RegionCount) % RegionCount >>)

\* reset without lines 184-185: the rotation targets are kept.
reset_KeepTargets(b) ==
    [highlightRegion(b, << >>) EXCEPT !.targetExplosion = 0]

reset(b) ==
    [highlightRegion(b, << >>) EXCEPT !.targetExplosion = 0,
                                      !.targetRotationX = 0,
                                      !.targetRotationY = 0]

setIdle(b, idle) == [b EXCEPT !.isIdle = idle]

\* BrainModel.update(dt): dt in milliseconds here, seconds in the source.
brainUpdate(b, dt) ==
    LET diff == b.targetExplosion - b.explosionAmount
        amount == IF Abs(diff) < 1000 THEN b.targetExplosion
                  ELSE b.explosionAmount + Scale(diff, Min(1000, 6 * dt), 1000)
        ry == IF b.isIdle THEN b.rotationY + 150 * dt
              ELSE b.rotationY + Scale(b.targetRotationY - b.rotationY, Min(1000, 5 * dt), 1000)
        rx == IF b.isIdle THEN b.rotationX
              ELSE b.rotationX + Scale(b.targetRotationX - b.rotationX, Min(1000, 5 * dt), 1000)
    IN  [b EXCEPT !.explosionAmount = amount,
                  !.rotationY = ry,
                  !.rotationX = Max(-800000, Min(800000, rx))]

----------------------------------------------------------------------------
(* GestureControls.  A handler maps s = [c: the controls, b: the brain,      *)
(* calls: the BrainModel calls made so far in this update] to the same       *)
(* record after it ran.                                                      *)

NewControls ==
    [ currentGesture |-> "none",
      gestureStartTime |-> 0,
      gestureDuration |-> 0,
      rotationVelocityY |-> 0,
      smoothTiltDY |-> 0,
      pinchTriggered |-> FALSE,
      lastPinchTime |-> 0,
      fistTriggered |-> FALSE,
      lastFistTime |-> 0,
      smoothExpansionDelta |-> 0,
      lastActiveTime |-> 0 ]

twistDeadZone == 1200

maxTiltStep == 10000

pinchCooldown == 700

fistHoldRequired == 800

fistCooldown == 1500

\* Mutant of idleTimeout: a shorter timeout.
idleTimeout_Short == 2 * 1000

idleTimeout == 2500

Called(calls, name) == \E i \in DOMAIN calls : calls[i] = name

brainSetIdle(s, idle) ==
    [s EXCEPT !.b = setIdle(s.b, idle),
              !.calls = Append(@, IF idle THEN "setIdle(true)" ELSE "setIdle(false)")]

\* Mutant of autoExpand: the expansion is set whatever it was.
autoExpand_Always(s) ==
    [s EXCEPT !.b = setExplosion(s.b, 200000), !.calls = Append(@, "setExplosion")]

\* The auto-expand shared by _handlePinch and _handleSwipe.
autoExpand(s) ==
    IF s.b.targetExplosion < 150000
    THEN [s EXCEPT !.b = setExplosion(s.b, 200000), !.calls = Append(@, "setExplosion")]
    ELSE s

\* syncTargets without lines 173-174: the targets are left as they were.
syncTargets_Skip(s) == s

syncTargets(s) ==
    [s EXCEPT !.b.targetRotationY = s.b.rotationY,
              !.b.targetRotationX = s.b.rotationX]

\* Mutant of rampVelocity: the velocity is clamped to +-0.02 per frame.
rampVelocity_Clamped(v, twistDelta) ==
    Max(-20000, Min(20000,
        v + Scale((IF Abs(twistDelta) > twistDeadZone
                   THEN Scale(twistDelta, 28, 10) ELSE 0) - v, 45, 100)))

\* _handleRotation: the velocity ramps toward twistDelta * _twistSensitivity,
\* or toward 0 inside the dead zone, by _twistAccel of the gap.
rampVelocity(v, twistDelta) ==
    v + Scale((IF Abs(twistDelta) > twistDeadZone
               THEN Scale(twistDelta, 28, 10) ELSE 0) - v, 45, 100)

spin(s, vel) ==
    [s EXCEPT !.c.rotationVelocityY = vel,
              !.b.rotationY = @ + vel,
              !.calls = Append(@, "rotate")]

\* tiltBy without the per-frame step limit of lines 161-164.
tiltBy_NoStepClamp(s, smoothed) ==
    IF Abs(smoothed) > 1500
    THEN [s EXCEPT !.c.smoothTiltDY = smoothed,
                   !.b.rotationX =
                       Max(-800000, Min(800000, @ + Scale(smoothed, 22, 10)))]
    ELSE [s EXCEPT !.c.smoothTiltDY = smoothed]

tiltBy(s, smoothed) ==
    IF Abs(smoothed) > 1500
    THEN [s EXCEPT !.c.smoothTiltDY = smoothed,
                   !.b.rotationX =
                       Max(-800000, Min(800000,
                           @ + Max(-maxTiltStep,
                                   Min(maxTiltStep, Scale(smoothed, 22, 10)))))]
    ELSE [s EXCEPT !.c.smoothTiltDY = smoothed]

tiltFrom(s, data) ==
    IF data.palmDelta # << >>
    THEN tiltBy(s, s.c.smoothTiltDY
                     + Scale(data.palmDelta[1].dy - s.c.smoothTiltDY, 18, 100))
    ELSE s

clearFlags(s) == [s EXCEPT !.c.pinchTriggered = FALSE, !.c.fistTriggered = FALSE]

spinFrom(s, data) == spin(s, rampVelocity(s.c.rotationVelocityY, data.handAngleDelta))

handleRotation(s, data) ==
    clearFlags(syncTargets(tiltFrom(spinFrom(brainSetIdle(s, FALSE), data), data)))

\* decayRotation stopping the spin at once instead of bleeding it off.
decayRotation_Snap(s) ==
    syncTargets([s EXCEPT !.c.rotationVelocityY = 0,
                          !.c.smoothTiltDY = @ + Scale(0 - @, 15, 100)])

\* decayRotation without the stop threshold of lines 185-189: the velocity is
\* only ever multiplied by 0.85.
decayRotation_NoStop(s) ==
    LET vel == s.c.rotationVelocityY + Scale(0 - s.c.rotationVelocityY, 15, 100)
        tilt == s.c.smoothTiltDY + Scale(0 - s.c.smoothTiltDY, 15, 100)
    IN  syncTargets([s EXCEPT !.c.rotationVelocityY = vel, !.c.smoothTiltDY = tilt,
                              !.b.rotationY = @ + vel])

decayRotation(s) ==
    LET vel == s.c.rotationVelocityY + Scale(0 - s.c.rotationVelocityY, 15, 100)
        tilt == s.c.smoothTiltDY + Scale(0 - s.c.smoothTiltDY, 15, 100)
        s1 == IF Abs(vel) > 50
              THEN [s EXCEPT !.c.rotationVelocityY = vel, !.c.smoothTiltDY = tilt,
                             !.b.rotationY = @ + vel]
              ELSE [s EXCEPT !.c.rotationVelocityY = 0, !.c.smoothTiltDY = tilt]
    IN  syncTargets(s1)

\* Mutant of handlePinch: the once-per-instance flag is not consulted.
handlePinch_NoFlag(s, t) ==
    IF t - s.c.lastPinchTime < pinchCooldown THEN s
    ELSE LET s1 == brainSetIdle([s EXCEPT !.c.pinchTriggered = TRUE,
                                          !.c.lastPinchTime = t], FALSE)
             s2 == [s1 EXCEPT !.b = selectNext(s1.b), !.calls = Append(@, "selectNext")]
         IN  autoExpand(s2)

handlePinch(s, t) ==
    IF s.c.pinchTriggered THEN s
    ELSE IF t - s.c.lastPinchTime < pinchCooldown THEN s
    ELSE LET s1 == brainSetIdle([s EXCEPT !.c.pinchTriggered = TRUE,
                                          !.c.lastPinchTime = t], FALSE)
             s2 == [s1 EXCEPT !.b = selectNext(s1.b), !.calls = Append(@, "selectNext")]
         IN  autoExpand(s2)

\* Mutant of handleFist: the hold time is not required.
handleFist_NoHold(s, t) ==
    IF s.c.fistTriggered THEN s
    ELSE IF t - s.c.lastFistTime < fistCooldown THEN s
    ELSE LET s1 == [s EXCEPT !.c.fistTriggered = TRUE,
                             !.c.lastFistTime = t,
                             !.b = reset(s.b),
                             !.calls = Append(@, "reset")]
         IN  brainSetIdle(s1, TRUE)

handleFist(s, t) ==
    IF s.c.fistTriggered THEN s
    ELSE IF s.c.gestureDuration < fistHoldRequired THEN s
    ELSE IF t - s.c.lastFistTime < fistCooldown THEN s
    ELSE LET s1 == [s EXCEPT !.c.fistTriggered = TRUE,
                             !.c.lastFistTime = t,
                             !.b = reset(s.b),
                             !.calls = Append(@, "reset")]
         IN  brainSetIdle(s1, TRUE)

handleExpansion(s, data, direction) ==
    LET s1 == brainSetIdle(s, FALSE)
        rawDelta == Abs(data.twoHandDelta) * direction
        smooth == s1.c.smoothExpansionDelta
                  + Scale(rawDelta - s1.c.smoothExpansionDelta, 30, 100)
    IN  [s1 EXCEPT !.c.smoothExpansionDelta = smooth,
                   !.b = addExplosion(s1.b, smooth * 3),
                   !.calls = Append(@, "addExplosion"),
                   !.c.pinchTriggered = FALSE,
                   !.c.fistTriggered = FALSE]

handleSwipe(s, direction) ==
    LET s1 == IF direction = "right"
              THEN [s EXCEPT !.b = selectNext(s.b), !.calls = Append(@, "selectNext")]
              ELSE [s EXCEPT !.b = selectPrevious(s.b),
                             !.calls = Append(@, "selectPrevious")]
    IN  autoExpand(s1)

\* update's transition tracking without lines 69-70: the outgoing label's flag
\* is left as it was.
trackTransition_KeepFlags(c, gesture, t) ==
    IF gesture # c.currentGesture
    THEN [c EXCEPT !.currentGesture = gesture,
                   !.gestureStartTime = t,
                   !.gestureDuration = 0]
    ELSE [c EXCEPT !.gestureDuration = t - c.gestureStartTime]

\* update(): gesture transition tracking.
trackTransition(c, gesture, t) ==
    IF gesture # c.currentGesture
    THEN [c EXCEPT !.pinchTriggered = IF c.currentGesture = "pinch" THEN FALSE ELSE @,
                   !.fistTriggered = IF c.currentGesture = "fist" THEN FALSE ELSE @,
                   !.currentGesture = gesture,
                   !.gestureStartTime = t,
                   !.gestureDuration = 0]
    ELSE [c EXCEPT !.gestureDuration = t - c.gestureStartTime]

\* update's no-hands branch requesting idle mode whatever time has passed.
requestIdle_Always(s, t) == brainSetIdle(s, TRUE)

\* update(): no hands.
requestIdle(s, t) ==
    IF t - s.c.lastActiveTime > idleTimeout THEN brainSetIdle(s, TRUE) ELSE s

\* The pinch case rotating whatever the twist-pose flag says.
rotateOrDecay_Always(s, data) == handleRotation(s, data)

\* update(): the pinch case goes on rotating while the twist pose is active.
rotateOrDecay(s, data) ==
    IF data.twistPoseActive THEN handleRotation(s, data) ELSE decayRotation(s)

\* update(): the switch on the gesture.
dispatch(s, data, t) ==
    CASE data.gesture = "pinch" -> rotateOrDecay(handlePinch(s, t), data)
      [] data.gesture = "fist" -> handleFist(s, t)
      [] data.gesture = "spread" -> handleExpansion(s, data, 1)
      [] data.gesture = "squeeze" -> handleExpansion(s, data, -1)
      [] data.gesture = "swipe_left" -> handleSwipe(s, "left")
      [] data.gesture = "swipe_right" -> handleSwipe(s, "right")
      [] data.gesture = "twist_pose" -> handleRotation(s, data)
      [] OTHER -> decayRotation(s)

branch(s, data, t) ==
    IF data.handsDetected = 0
    THEN requestIdle(clearFlags(decayRotation(s)), t)
    ELSE dispatch([s EXCEPT !.c.lastActiveTime = t], data, t)

\* update(gestureData) at wall-clock time t.
update(s, data, t) ==
    branch([s EXCEPT !.c = trackTransition(@, data.gesture, t)], data, t)

----------------------------------------------------------------------------
(* The observer.  It records the sample the Controller consumed last, the    *)
(* BrainModel calls of the last render tick, and counts events per gesture   *)
(* instance (a maximal run of consecutive updates with one label) and per    *)
(* no-hands episode (a maximal run of consecutive updates with no hand).     *)

NewObs ==
    [ data |-> << >>,          \* the sample of the last update
      at |-> 0,                \* the time of the last update
      calls |-> << >>,         \* BrainModel calls made by the last update
      lastHandAt |-> << >>,    \* time of the last update whose sample had a hand
      instStart |-> 0,         \* time of the first update of the gesture instance
      instResets |-> 0,        \* resets fired in the current gesture instance
      instAdvances |-> 0,      \* pinch selections in the current gesture instance
      instTwist |-> FALSE,     \* some sample of the instance had twistPoseActive
      resetAt |-> << >>,       \* time of the last fist reset, and of the one before
      prevResetAt |-> << >>,
      advanceAt |-> << >>,     \* time of the last pinch selection, and the one before
      prevAdvanceAt |-> << >>,
      idleRequests |-> 0,      \* setIdle(true) calls in the current no-hands episode
      swipeMoves |-> 0,        \* selection moves made by _handleSwipe
      swipeFires |-> 0,        \* firings of _detectSwipe
      swipeAt |-> << >>,       \* time of the last firing, and of the one before
      prevSwipeAt |-> << >>,
      fired |-> FALSE ]        \* _detectSwipe fired on the last frame

observeUpdate(o, data, calls, t) ==
    LET fresh == o.data = << >> \/ o.data[1].gesture # data.gesture
        resetFired == data.gesture = "fist" /\ Called(calls, "reset")
        advanced == data.gesture = "pinch" /\ Called(calls, "selectNext")
        moved == data.gesture \in Swipes
                 /\ (Called(calls, "selectNext") \/ Called(calls, "selectPrevious"))
        idled == data.handsDetected = 0 /\ Called(calls, "setIdle(true)")
    IN  [o EXCEPT
            !.data = << data >>,
            !.at = t,
            !.calls = calls,
            !.lastHandAt = IF data.handsDetected > 0 THEN << t >> ELSE @,
            !.instStart = IF fresh THEN t ELSE @,
            !.instResets = (IF fresh THEN 0 ELSE @) + (IF resetFired THEN 1 ELSE 0),
            !.instAdvances = (IF fresh THEN 0 ELSE @) + (IF advanced THEN 1 ELSE 0),
            !.instTwist = (IF fresh THEN FALSE ELSE @) \/ data.twistPoseActive,
            !.resetAt = IF resetFired THEN << t >> ELSE @,
            !.prevResetAt = IF resetFired THEN o.resetAt ELSE @,
            !.advanceAt = IF advanced THEN << t >> ELSE @,
            !.prevAdvanceAt = IF advanced THEN o.advanceAt ELSE @,
            !.idleRequests = (IF data.handsDetected = 0 THEN @ ELSE 0)
                             + (IF idled THEN 1 ELSE 0),
            !.swipeMoves = @ + (IF moved THEN 1 ELSE 0)]

observeFrame(o, before, after, t) ==
    LET fired == after.lastSwipeTime # before.lastSwipeTime
    IN  [o EXCEPT !.fired = fired,
                  !.swipeFires = @ + (IF fired THEN 1 ELSE 0),
                  !.swipeAt = IF fired THEN << t >> ELSE @,
                  !.prevSwipeAt = IF fired THEN o.swipeAt ELSE @]

----------------------------------------------------------------------------
(* main.js and HandTracker: the two requestAnimationFrame loops.  Each        *)
(* display frame runs the render callback (animate) and the tracker callback *)
(* (_detect) once, always in the same order; the clock moves between them.   *)

StartTime == 10000

detectInterval == 50

\* The replayed recognizer, its own Date.now() and the sample it returned last.
NewReplay == [r |-> NewRecognizer, now |-> StartTime, out |-> << >>]

Init ==
    /\ now = StartTime
    /\ recognizer = NewRecognizer
    /\ controls = NewControls
    /\ brain = NewBrain
    /\ tracker = [lastDetectTime |-> 0]
    /\ latestGestureData = << >>
    /\ renderClock = StartTime
    /\ rafTurn = "animate"
    /\ ticks = 0
    /\ obs = NewObs
    /\ replay = NewReplay
    /\ thrown = FALSE

\* onResults of main.js: the sample waits for the render loop.
onResults(res, t) ==
    /\ recognizer' = res.r
    /\ latestGestureData' = << res.out >>
    /\ obs' = observeFrame(obs, recognizer, res.r, t)

\* HandTracker._detect after `elapsed` ms, the camera showing `lm`; onResults
\* runs recognize and stores the sample for the render loop.
detectFrame(elapsed, lm) ==
    /\ rafTurn = "detect"
    /\ rafTurn' = "animate"
    /\ now' = now + elapsed
    /\ ticks' = ticks + 1
    /\ IF now' - tracker.lastDetectTime >= detectInterval
       THEN /\ tracker' = [tracker EXCEPT !.lastDetectTime = now']
            /\ onResults(recognize(recognizer, lm, now'), now')
       ELSE UNCHANGED << tracker, recognizer, latestGestureData, obs >>
    /\ UNCHANGED << controls, brain, renderClock >>

Detect(elapsed, lm) == detectFrame(elapsed, lm) /\ UNCHANGED << replay, thrown >>

\* animate(), after the Controller consumed the waiting sample, if any.
render(s, t) ==
    /\ controls' = s.c
    /\ brain' = brainUpdate(s.b, t - renderClock)
    /\ obs' = IF latestGestureData # << >>
              THEN observeUpdate(obs, latestGestureData[1], s.calls, t)
              ELSE obs

\* animate() without the `latestGestureData = null` of line 177: the sample
\* stays for the next tick.
Animate_KeepSample(elapsed) ==
    /\ rafTurn = "animate"
    /\ rafTurn' = "detect"
    /\ now' = now + elapsed
    /\ render(IF latestGestureData # << >>
              THEN update([c |-> controls, b |-> brain, calls |-> << >>],
                          latestGestureData[1], now')
              ELSE [c |-> controls, b |-> brain, calls |-> << >>],
              now')
    /\ latestGestureData' = latestGestureData
    /\ renderClock' = now'
    /\ UNCHANGED << recognizer, tracker, ticks, replay, thrown >>

\* animate() after `elapsed` ms: the Controller consumes the waiting sample,
\* then the BrainModel animates.
Animate(elapsed) ==
    /\ rafTurn = "animate"
    /\ rafTurn' = "detect"
    /\ now' = now + elapsed
    /\ render(IF latestGestureData # << >>
              THEN update([c |-> controls, b |-> brain, calls |-> << >>],
                          latestGestureData[1], now')
              ELSE [c |-> controls, b |-> brain, calls |-> << >>],
              now')
    /\ latestGestureData' = << >>
    /\ renderClock' = now'
    /\ UNCHANGED << recognizer, tracker, ticks, replay, thrown >>

\* The same camera frame handed to the second recognizer, whose Date.now()
\* reads t when recognize runs.
replayFrame(x, t) == [r |-> x.r, now |-> t, out |-> << x.out >>]

\* A tracker callback whose frame is also replayed, `replayElapsed` ms after
\* the previous replayed frame, to the second recognizer.
DetectReplayed(elapsed, replayElapsed, lm) ==
    /\ detectFrame(elapsed, lm)
    /\ replay' = IF now' - tracker.lastDetectTime >= detectInterval
                 THEN replayFrame(recognize(replay.r, lm, replay.now + replayElapsed),
                                  replay.now + replayElapsed)
                 ELSE replay
    /\ UNCHANGED thrown

\* recognize(results) for results that are not a list of complete hands:
\* null, no landmarks list, an empty list, or one hand of which only the
\* first `points` landmark points exist.  Reading .x of a missing point is a
\* TypeError: before the palm ring is touched when a palm point is missing
\* (lines 184-187), after the push when only finger points are (lines 203-211).
recognizeResults(r, results, t) ==
    IF results.kind \in {"null", "noLandmarks", "empty"}
    THEN [r |-> resetOnLoss(r), out |-> << EmptyOutput >>, threw |-> FALSE]
    ELSE IF results.points <= 17
    THEN [r |-> r, out |-> << >>, threw |-> TRUE]
    ELSE [r |-> [r EXCEPT !.palmHistory = pushPalm(@, results.hand, t)],
          out |-> << >>, threw |-> TRUE]

\* The onResults handler of main.js: the assignment to latestGestureData is
\* skipped when recognize throws.
deliver(res, t) ==
    /\ recognizer' = res.r
    /\ thrown' = res.threw
    /\ latestGestureData' = IF res.threw THEN latestGestureData ELSE res.out
    /\ obs' = IF res.threw THEN obs ELSE observeFrame(obs, recognizer, res.r, t)

\* A tracker callback whose results are malformed.
DetectMalformed(elapsed, results) ==
    /\ rafTurn = "detect"
    /\ rafTurn' = "animate"
    /\ now' = now + elapsed
    /\ ticks' = ticks + 1
    /\ tracker' = [tracker EXCEPT !.lastDetectTime = now']
    /\ deliver(recognizeResults(recognizer, results, now'), now')
    /\ UNCHANGED << controls, brain, renderClock, replay >>

\* The animation frame in which _detect would have run, had an exception not
\* kept it from calling requestAnimationFrame (line 568).
DetectStopped ==
    /\ thrown
    /\ rafTurn = "detect"
    /\ rafTurn' = "animate"
    /\ UNCHANGED << now, recognizer, controls, brain, tracker, latestGestureData,
                    renderClock, ticks, obs, replay, thrown >>

\* The keydown handler of main.js.
KeyDown(key) ==
    /\ brain' = CASE key = "ArrowUp" -> addExplosion(brain, 100000)
                  [] key = "ArrowDown" -> addExplosion(brain, -100000)
                  [] key = "ArrowRight" ->
                        LET b == selectNext(brain)
                        IN  IF b.targetExplosion < 150000 THEN setExplosion(b, 200000) ELSE b
                  [] key = "ArrowLeft" ->
                        LET b == selectPrevious(brain)
                        IN  IF b.targetExplosion < 150000 THEN setExplosion(b, 200000) ELSE b
                  [] key = "r" -> reset(brain)
                  [] OTHER -> brain
    /\ UNCHANGED << now, recognizer, controls, tracker, latestGestureData,
                    renderClock, rafTurn, ticks, obs, replay, thrown >>

----------------------------------------------------------------------------
(* Hands.  Curls and pinch distance in hundredths. *)

Shape(index, middle, ring, pinky, thumb, pinch) ==
    [ indexCurl |-> index, middleCurl |-> middle, ringCurl |-> ring,
      pinkyCurl |-> pinky, thumbExt |-> thumb, pinchDist |-> pinch ]

FistShape == Shape(100, 100, 100, 100, FALSE, 100)      \* score 0.18

TwistShape == Shape(0, 100, 100, 100, TRUE, 100)        \* score 0.86

PointShape == Shape(0, 100, 100, 100, FALSE, 100)       \* score 0.52

PalmShape == Shape(0, 0, 0, 0, FALSE, 100)              \* score 0.34

PeaceShape == Shape(0, 0, 100, 100, FALSE, 100)         \* score 0.46, no label

PinchShape == Shape(100, 35, 0, 0, FALSE, 20)           \* score 0.541

PinchTwistShape == Shape(30, 100, 100, 100, TRUE, 20)   \* score 1

PinchFistShape == Shape(100, 100, 100, 100, FALSE, 20)  \* pinch and fist at once

FistThumbShape == Shape(100, 100, 100, 100, TRUE, 100)  \* fist, score 0.52

NoHands == [n |-> 0]

\* One hand of a given shape with its palm centre at (x, y) and axis angles.
Hand(shape, x, y, handAngle, pinchAxisAngle) ==
    [ n |-> 1, x |-> x, y |-> y,
      indexCurl |-> shape.indexCurl, middleCurl |-> shape.middleCurl,
      ringCurl |-> shape.ringCurl, pinkyCurl |-> shape.pinkyCurl,
      thumbExt |-> shape.thumbExt, pinchDist |-> shape.pinchDist,
      handAngle |-> handAngle, pinchAxisAngle |-> pinchAxisAngle,
      rawDist |-> 0 ]

\* The same with a second hand whose wrist is rawDist away.
TwoHands(shape, x, y, handAngle, pinchAxisAngle, rawDist) ==
    [Hand(shape, x, y, handAngle, pinchAxisAngle) EXCEPT !.n = 2, !.rawDist = rawDist]

Still(shape) == Hand(shape, 500000, 500000, 0, 0)

----------------------------------------------------------------------------
(* Fist sessions: a hand that makes a fist, leaves the view and comes back,  *)
(* at frame intervals around the hold time.                                  *)

MaxFistTicks == 10

FistFrames == { <<400, Still(FistShape)>>, <<399, Still(FistShape)>>, <<50, NoHands>> }

NextFist ==
    \/ ticks < MaxFistTicks /\ \E f \in FistFrames : Detect(f[1], f[2])
    \/ Animate(0)

SpecFist == Init /\ [][NextFist]_vars

\* C1: the fist reset fires only on a fist sample whose instance has lasted at
\* least 800 ms, at most once per fist instance, and never less than 1500 ms
\* after the previous fist reset; a fist held 800 ms or more has fired unless
\* the previous reset is less than 1500 ms old.
C1_FistHoldAndCooldown ==
    LET fired == Called(obs.calls, "reset")
        held == obs.at - obs.instStart
    IN  /\ fired => /\ obs.data[1].gesture = "fist"
                    /\ held >= 800
                    /\ obs.prevResetAt # << >> => obs.at - obs.prevResetAt[1] >= 1500
        /\ obs.instResets <= 1
        /\ (obs.data # << >> /\ obs.data[1].gesture = "fist" /\ held >= 800
              /\ obs.instResets = 0)
           => (obs.resetAt # << >> /\ obs.at - obs.resetAt[1] < 1500)

\* A second fist, held past 800 ms, is still waiting for the cooldown.
C1_Witness ==
    /\ obs.data # << >> /\ obs.data[1].gesture = "fist"
    /\ obs.at - obs.instStart >= 800
    /\ obs.instResets = 0
    /\ obs.resetAt # << >>

----------------------------------------------------------------------------
(* Swipe sessions: a hand of one shape moving between two palm positions at  *)
(* a steady frame interval, long enough for two firings of the detector.     *)

MaxSwipeTicks == 15

SwipeFrames == { <<80, Hand(PeaceShape, 100000, 500000, 0, 0)>>,
                 <<60, Hand(PeaceShape, 400000, 500000, 0, 0)>> }

NextSwipe ==
    \/ ticks < MaxSwipeTicks /\ \E f \in SwipeFrames : Detect(f[1], f[2])
    \/ Animate(0)

SpecSwipe == Init /\ [][NextSwipe]_vars

\* C2: two firings of the swipe detector are at least 700 ms apart, and the
\* palm history is empty after every frame on which it fired.
C2_SwipeCooldown ==
    /\ (obs.swipeAt # << >> /\ obs.prevSwipeAt # << >>)
          => obs.swipeAt[1] - obs.prevSwipeAt[1] >= 700
    /\ (obs.fired /\ latestGestureData # << >>) => recognizer.palmHistory = << >>

\* A second firing happened, after qualifying motion during the cooldown.
C2_Witness ==
    /\ obs.fired /\ latestGestureData # << >>
    /\ obs.prevSwipeAt # << >> /\ obs.swipeAt[1] - obs.prevSwipeAt[1] = 700

----------------------------------------------------------------------------
(* Swipe sessions with a changing hand shape, so that the stabilization      *)
(* buffer holds several labels when the detector fires.                      *)

MaxSwipeShapeTicks == 7

SwipeShapeFrames ==
    { Hand(shape, x, 500000, 0, 0) :
        shape \in {PeaceShape, FistShape}, x \in {100000, 400000} }

NextSwipeShape ==
    \/ ticks < MaxSwipeShapeTicks /\ \E lm \in SwipeShapeFrames : Detect(80, lm)
    \/ Animate(0)

SpecSwipeShape == Init /\ [][NextSwipeShape]_vars

\* C3: a sample carries a swipe label only on a frame on which the detector
\* fired, and the Controller has made exactly one selection move per firing.
C3_SwipeSingleEvent ==
    /\ (latestGestureData # << >> /\ latestGestureData[1].gesture \in Swipes)
          => obs.fired
    /\ obs.swipeMoves <= obs.swipeFires
    /\ latestGestureData = << >> => obs.swipeMoves = obs.swipeFires

----------------------------------------------------------------------------
(* Shape sessions: a still hand changing shape from frame to frame, or       *)
(* leaving the view, at the tracker's 50 ms interval.                        *)

MaxTicks == 6

ShapeFrames == { Still(FistShape), Still(TwistShape), Still(PointShape),
                 Still(PalmShape), NoHands }

Next ==
    \/ ticks < MaxTicks /\ \E lm \in ShapeFrames : Detect(50, lm)
    \/ Animate(0)

Spec == Init /\ [][Next]_vars

\* C4: on a frame with a hand the twist-pose flag is active afterwards exactly
\* when the score is at least 0.58, or the flag was active and the score is at
\* least 0.42; the sample reports that flag.
C4_TwistHysteresis ==
    [][ (rafTurn = "detect" /\ latestGestureData' # << >>
           /\ latestGestureData'[1].handsDetected > 0)
        => LET score == latestGestureData'[1].twistPoseScore
           IN  /\ recognizer'.twistPoseActive
                    = (score >= 580000 \/ (recognizer.twistPoseActive /\ score >= 420000))
               /\ latestGestureData'[1].twistPoseActive = recognizer'.twistPoseActive ]_vars

\* The flag is held active by a score inside the band.
C4_Witness ==
    /\ latestGestureData # << >>
    /\ latestGestureData[1].twistPoseScore >= 420000
    /\ latestGestureData[1].twistPoseScore < 580000
    /\ latestGestureData[1].twistPoseActive

\* C5: when the last three raw labels of consecutive frames are one label, the
\* sample's gesture is that label.
C5_ThreeInARow ==
    LET buffer == recognizer.gestureBuffer
        n == Len(buffer)
    IN  (latestGestureData # << >> /\ n >= 3
           /\ buffer[n - 1] = buffer[n] /\ buffer[n - 2] = buffer[n])
        => latestGestureData[1].gesture = buffer[n]

\* The third open_palm frame after two frames of other labels.
C5_Witness ==
    LET buffer == recognizer.gestureBuffer
    IN  /\ latestGestureData # << >>
        /\ Len(buffer) = 5
        /\ buffer[1] # "open_palm" /\ buffer[2] # "open_palm"
        /\ buffer[3] = "open_palm" /\ buffer[4] = "open_palm" /\ buffer[5] = "open_palm"
        /\ latestGestureData[1].gesture = "open_palm"

\* C6: on a frame with a hand, without majority and outside the swipe and twist
\* exceptions, the gesture is the previous frame's gesture; and a label other
\* than a swipe or twist_pose that replaces the previous frame's gesture has at
\* least 3 of the buffered raw labels.
C6_RetainOrMajority ==
    LET buffer == recognizer.gestureBuffer
        cur == latestGestureData[1]
        raw == buffer[Len(buffer)]
        prev == IF obs.data = << >> THEN "none" ELSE obs.data[1].gesture
    IN  (latestGestureData # << >> /\ latestGestureData[1].handsDetected > 0)
        => /\ ( (\A g \in Gestures : CountOf(buffer, g) < 3)
                /\ raw \notin Swipes
                /\ ~(cur.twistPoseActive /\ raw \notin highPriority) )
              => cur.gesture = prev
           /\ (cur.gesture \notin Swipes \cup {"twist_pose"} /\ cur.gesture # prev)
              => CountOf(buffer, cur.gesture) >= 3

----------------------------------------------------------------------------
(* Idle sessions: a hand that appears and leaves the view for long.          *)

MaxIdleTicks == 6

IdleFrames == { <<50, Still(PalmShape)>>, <<50, NoHands>>, <<2450, NoHands>> }

NextIdle ==
    \/ ticks < MaxIdleTicks /\ \E f \in IdleFrames : Detect(f[1], f[2])
    \/ Animate(0)

SpecIdle == Init /\ [][NextIdle]_vars

\* C7 as stated: idle mode is requested at most once per no-hands episode.
C7_IdleOncePerEpisode == obs.lastHandAt # << >> => obs.idleRequests <= 1

\* C7 amended: an update without a hand requests idle mode exactly when more
\* than 2500 ms have passed since the last update with a hand (or none ever
\* was), on every such update of the episode.
C7_IdleEveryFrameAfterTimeout ==
    (obs.data # << >> /\ obs.data[1].handsDetected = 0)
    => ( Called(obs.calls, "setIdle(true)")
         <=> (obs.lastHandAt = << >> \/ obs.at - obs.lastHandAt[1] > 2500) )

\* An episode after a hand that is exactly 2500 ms old: no request yet.
C7_Witness ==
    /\ obs.data # << >> /\ obs.data[1].handsDetected = 0
    /\ obs.lastHandAt # << >> /\ obs.at - obs.lastHandAt[1] = 2500
    /\ ~Called(obs.calls, "setIdle(true)")

----------------------------------------------------------------------------
(* Selection sessions: a pinching or sweeping hand, with the arrow-up key    *)
(* raising the expansion between frames.                                     *)

MaxSelectTicks == 6

SelectFrames == { Hand(PinchShape, 100000, 500000, 0, 0),
                  Hand(PeaceShape, 100000, 500000, 0, 0),
                  Hand(PeaceShape, 400000, 500000, 0, 0) }

NextSelect ==
    \/ ticks < MaxSelectTicks /\ \E lm \in SelectFrames : Detect(80, lm)
    \/ Animate(0)
    \/ rafTurn = "animate" /\ latestGestureData # << >>
       /\ brain.targetExplosion < 300000 /\ KeyDown("ArrowUp")

SpecSelect == Init /\ [][NextSelect]_vars

\* The last update moved the selection for a pinch or a swipe.
SelectionMoved(o) ==
    /\ o.data # << >>
    /\ o.data[1].gesture \in {"pinch"} \cup Swipes
    /\ (Called(o.calls, "selectNext") \/ Called(o.calls, "selectPrevious"))

\* C8: an update that moves the selection for a pinch or a swipe sets the
\* target expansion to 0.2 if it was below 0.15 and leaves it unchanged
\* otherwise.
C8_AutoExpand ==
    [][ (rafTurn = "animate" /\ rafTurn' = "detect" /\ latestGestureData # << >>
           /\ SelectionMoved(obs'))
        => brain'.targetExplosion =
              IF brain.targetExplosion < 150000 THEN 200000
              ELSE brain.targetExplosion ]_vars

\* A selection move that found the expansion at 0.3 and left it there.
C8_Witness == SelectionMoved(obs) /\ brain.targetExplosion = 300000 /\ obs.at = now

----------------------------------------------------------------------------
(* Pinch sessions: a pinching hand, with or without the twist pose, that     *)
(* leaves the view and comes back.                                           *)

MaxPinchTicks == 12

PinchFrames == { <<120, Still(PinchShape)>>, <<120, Still(PinchTwistShape)>>,
                 <<50, NoHands>> }

NextPinch ==
    \/ ticks < MaxPinchTicks /\ \E f \in PinchFrames : Detect(f[1], f[2])
    \/ Animate(0)

SpecPinch == Init /\ [][NextPinch]_vars

\* C9: a pinch instance without an active twist pose on any of its frames
\* advances the selection at most once, and two pinch selections are at least
\* 700 ms apart.
C9_PinchOncePerInstance ==
    /\ (obs.data # << >> /\ obs.data[1].gesture = "pinch" /\ ~obs.instTwist)
          => obs.instAdvances <= 1
    /\ (obs.advanceAt # << >> /\ obs.prevAdvanceAt # << >>)
          => obs.advanceAt[1] - obs.prevAdvanceAt[1] >= 700

\* A pinch instance without twist pose, longer than the cooldown, that has
\* made the second pinch selection of the session and only that one.
C9_Witness ==
    /\ obs.data # << >> /\ obs.data[1].gesture = "pinch" /\ ~obs.instTwist
    /\ obs.at - obs.instStart >= 700
    /\ obs.instAdvances = 1
    /\ obs.prevAdvanceAt # << >>
    /\ obs.at > obs.advanceAt[1]

----------------------------------------------------------------------------
(* Twist sessions: a hand in the twist pose whose palm axis turns between    *)
(* frames, by a little or by a lot.                                          *)

MaxTwistTicks == 7

TwistAngles == {0, 3000, 60000}

NextTwist ==
    \/ ticks < MaxTwistTicks
       /\ \E a \in TwistAngles : Detect(50, Hand(TwistShape, 500000, 500000, a, 0))
    \/ Animate(0)

SpecTwist == Init /\ [][NextTwist]_vars

\* The render callback is about to run _handleRotation on a waiting sample.
RotationFrame ==
    /\ rafTurn = "animate" /\ rafTurn' = "detect" /\ latestGestureData # << >>
    /\ Called(obs'.calls, "rotate")

\* C10 as stated: every rotation frame moves the Y velocity by 0.45 of the gap
\* to handAngleDelta * 2.8, for every input magnitude.
C10_ProportionalEveryMagnitude ==
    [][ RotationFrame =>
          LET v == controls.rotationVelocityY
              T == Scale(latestGestureData[1].handAngleDelta, 28, 10)
          IN  controls'.rotationVelocityY = v + Scale(T - v, 45, 100) ]_vars

\* C10 amended: every rotation frame moves the Y velocity, unclamped, by 0.45
\* of the gap to a target that is handAngleDelta * 2.8 when |handAngleDelta|
\* exceeds the 0.0012 dead zone and 0 otherwise.
C10_RampOutsideDeadZone ==
    [][ RotationFrame =>
          LET v == controls.rotationVelocityY
              d == latestGestureData[1].handAngleDelta
              T == IF Abs(d) > 1200 THEN Scale(d, 28, 10) ELSE 0
          IN  controls'.rotationVelocityY = v + Scale(T - v, 45, 100) ]_vars

\* A rotation frame has just run on a non-zero handAngleDelta inside the dead
\* zone, steering the velocity toward 0.
C10_Witness ==
    /\ obs.data # << >> /\ obs.at = now /\ Called(obs.calls, "rotate")
    /\ obs.data[1].gesture = "twist_pose"
    /\ obs.data[1].handAngleDelta # 0 /\ Abs(obs.data[1].handAngleDelta) <= 1200

----------------------------------------------------------------------------
(* Expansion sessions: two hands moving apart and together, a fist, and the  *)
(* arrow keys changing the expansion between frames.                         *)

MaxExpandTicks == 7

ExpandFrames == { TwoHands(PalmShape, 500000, 500000, 0, 0, 200000),
                  TwoHands(PalmShape, 500000, 500000, 0, 0, 1400000),
                  Still(FistShape) }

NextExpand ==
    \/ ticks < MaxExpandTicks /\ \E lm \in ExpandFrames : Detect(300, lm)
    \/ Animate(0)
    \/ rafTurn = "animate" /\ latestGestureData # << >>
       /\ brain.targetExplosion > 800000 /\ KeyDown("ArrowUp")
    \/ rafTurn = "animate" /\ latestGestureData # << >>
       /\ brain.targetExplosion < 200000 /\ KeyDown("ArrowDown")

SpecExpand == Init /\ [][NextExpand]_vars

\* C11: the target expansion is within [0, 1] in every state, whatever
\* sequence of Controller updates and direct model operations produced it.
C11_ExpansionInRange ==
    brain.targetExplosion >= 0 /\ brain.targetExplosion <= Micro

\* A spread update that pushed the expansion against the upper limit.
C11_Witness ==
    /\ obs.data # << >> /\ obs.data[1].gesture = "spread"
    /\ obs.at = now /\ rafTurn = "detect"
    /\ Called(obs.calls, "addExplosion")
    /\ brain.targetExplosion = Micro

----------------------------------------------------------------------------
(* Tilt sessions: a hand in the twist pose sliding steadily down or up the   *)
(* image, one camera frame every 50 ms.                                      *)

MaxTiltTicks == 100

\* Where the slide starts and how far the palm moves per frame.
TiltSlides == { << 100000, 8000 >>, << 900000, -8000 >> }

TiltFrame(slide) == Hand(TwistShape, 500000, slide[1] + slide[2] * ticks, 0, 0)

\* The frame continues the slide the earlier frames belong to.
Continues(slide) ==
    IF recognizer.palmHistory = << >> THEN TRUE
    ELSE recognizer.palmHistory[Len(recognizer.palmHistory)].y + slide[2]
            = TiltFrame(slide).y

NextTilt ==
    \/ ticks < MaxTiltTicks
       /\ \E slide \in TiltSlides : Continues(slide) /\ Detect(50, TiltFrame(slide))
    \/ Animate(0)

SpecTilt == Init /\ [][NextTilt]_vars

\* The Controller and the model as the update of the waiting sample leaves
\* them, before BrainModel.update runs.
afterUpdate ==
    update([c |-> controls, b |-> brain, calls |-> << >>], latestGestureData[1], now)

\* C12: a Controller update leaves the X rotation within [-0.8, 0.8], and an
\* update that rotates changes the X rotation by at most 0.01.
C12_TiltBounded ==
    (rafTurn = "animate" /\ latestGestureData # << >>)
    => /\ afterUpdate.b.rotationX >= -800000
       /\ afterUpdate.b.rotationX <= 800000
       /\ Called(afterUpdate.calls, "rotate")
          => Abs(afterUpdate.b.rotationX - brain.rotationX) <= maxTiltStep

\* A rotation update whose smoothed palm movement asked for more than the
\* step limit, with the tilt at the upper limit.
C12_Witness ==
    /\ rafTurn = "detect" /\ obs.at = now
    /\ Called(obs.calls, "rotate")
    /\ Abs(Scale(controls.smoothTiltDY, 22, 10)) > maxTiltStep
    /\ brain.rotationX = 800000

----------------------------------------------------------------------------
(* Two-hand sessions: two hands at changing wrist distance, the primary hand *)
(* open, in the twist pose or closed, and frames without hands.              *)

MaxTwoHandTicks == 5

TwoHandFrames == { TwoHands(PalmShape, 500000, 500000, 0, 0, 300000),
                   TwoHands(PalmShape, 500000, 500000, 0, 0, 320000),
                   TwoHands(TwistShape, 500000, 500000, 0, 0, 600000),
                   TwoHands(FistShape, 500000, 500000, 0, 0, 300000),
                   NoHands }

NextTwoHand ==
    \/ ticks < MaxTwoHandTicks /\ \E lm \in TwoHandFrames : Detect(80, lm)
    \/ Animate(0)

SpecTwoHand == Init /\ [][NextTwoHand]_vars

\* The recognizer holds none of the state recognize() keeps between frames.
Cleared(r) ==
    /\ r.palmHistory = << >>
    /\ r.angleDeltaHistory = << >>
    /\ r.prevHandAngle = << >> /\ r.filteredHandAngleDelta = 0
    /\ r.prevPinchAxisAngle = << >> /\ r.filteredPinchAxisDelta = 0
    /\ r.smoothTwoHandDist = << >>
    /\ ~r.twistPoseActive
    /\ r.gestureBuffer = << >>

\* C13: whatever state the Recognizer is in, a frame without hands clears the
\* palm history, the angle-delta history and filter state, the two-hand
\* smoothing, the twist flag and the stabilization buffer, and the sample has
\* gesture none, confidence 0, handsDetected 0 and twistPoseActive false.
C13_ResetOnLoss ==
    /\ Cleared(recognize(recognizer, NoHands, now).r)
    /\ recognize(recognizer, NoHands, now).out.gesture = "none"
    /\ recognize(recognizer, NoHands, now).out.confidence = 0
    /\ recognize(recognizer, NoHands, now).out.handsDetected = 0
    /\ ~recognize(recognizer, NoHands, now).out.twistPoseActive
    /\ (rafTurn = "animate" /\ latestGestureData # << >>
        /\ latestGestureData[1].handsDetected = 0)
       => Cleared(recognizer) /\ latestGestureData[1] = EmptyOutput

\* A frame without hands arrived right after the Controller consumed a stable
\* spread sample taken with the twist flag set.
C13_Witness ==
    /\ rafTurn = "animate" /\ latestGestureData # << >>
    /\ latestGestureData[1].handsDetected = 0
    /\ obs.data # << >> /\ obs.data[1].gesture = "spread"
    /\ obs.data[1].twistPoseActive
    /\ Cleared(recognizer)

----------------------------------------------------------------------------
(* Replay sessions: every camera frame is also fed to a second, fresh        *)
(* recognizer, at the pace of the camera or 1 ms after the previous frame.   *)

MaxReplayTicks == 5

\* An open hand sweeping right by 0.1 per frame, or back at the left.
ReplayFrames == { Hand(PalmShape, 100000 + 100000 * ticks, 500000, 0, 0),
                  Hand(PalmShape, 100000, 500000, 0, 0) }

ReplayPaces == { 80, 250 }

NextReplay ==
    \/ ticks < MaxReplayTicks
       /\ \E lm \in ReplayFrames, pace \in ReplayPaces : DetectReplayed(80, pace, lm)
    \/ Animate(0)

SpecReplay == Init /\ [][NextReplay]_vars

\* C14: two fresh Recognizers fed the same sequence of frames return the same
\* sample for every frame.
C14_ReplayDeterministic ==
    (rafTurn = "animate" /\ latestGestureData # << >>)
    => latestGestureData = replay.out

----------------------------------------------------------------------------
(* The rings of the Recognizer, over the long tilt sessions.                 *)

TimeOrdered(history) ==
    \A i \in 1..(Len(history) - 1) : history[i].time <= history[i + 1].time

\* C15: the palm history holds at most 20 entries in non-decreasing time
\* order, the angle-delta history at most 7 and the stabilization buffer at
\* most 5; a frame that finds the palm history full drops its oldest entry
\* and keeps the others in place.
C15_BoundedRings ==
    /\ [](/\ Len(recognizer.palmHistory) <= PalmHistoryMax
          /\ TimeOrdered(recognizer.palmHistory)
          /\ Len(recognizer.angleDeltaHistory) <= AngleHistoryMax
          /\ Len(recognizer.gestureBuffer) <= STABILITY_BUFFER_SIZE)
    /\ [][ (Len(recognizer.palmHistory) = PalmHistoryMax
            /\ recognizer'.palmHistory # recognizer.palmHistory
            /\ recognizer'.palmHistory # << >>)
           => /\ Len(recognizer'.palmHistory) = PalmHistoryMax
              /\ SubSeq(recognizer'.palmHistory, 1, PalmHistoryMax - 1)
                    = Tail(recognizer.palmHistory)
              /\ recognizer'.palmHistory[PalmHistoryMax].time = now' ]_vars

\* All three rings are full and the first palm entries have been evicted.
C15_Witness ==
    /\ Len(recognizer.palmHistory) = PalmHistoryMax
    /\ recognizer.palmHistory[1].time > StartTime + 50
    /\ Len(recognizer.angleDeltaHistory) = AngleHistoryMax
    /\ Len(recognizer.gestureBuffer) = STABILITY_BUFFER_SIZE

----------------------------------------------------------------------------
(* Classification sessions: one still hand whose shape changes from frame to *)
(* frame.                                                                    *)

MaxClassifyTicks == 4

ClassifyFrames == { Still(PinchFistShape), Still(FistThumbShape), Still(TwistShape),
                    Still(PointShape), Still(PalmShape), Still(PeaceShape) }

NextClassify ==
    \/ ticks < MaxClassifyTicks /\ \E lm \in ClassifyFrames : Detect(80, lm)
    \/ Animate(0)

SpecClassify == Init /\ [][NextClassify]_vars

Priority == << "pinch", "fist", "twist_pose", "point", "open_palm", "none" >>

\* The predicate of each label, on its own.
Matches(g, lm, twistActive) ==
    CASE g = "pinch" -> lm.pinchDist < 35 /\ lm.middleCurl > 30
      [] g = "fist" -> /\ extendedCount(lm) <= 1
                       /\ lm.indexCurl >= 40 /\ lm.middleCurl >= 40 /\ lm.ringCurl >= 40
      [] g = "twist_pose" -> twistActive
      [] g = "point" -> /\ lm.indexCurl < 40
                        /\ lm.middleCurl >= 40 /\ lm.ringCurl >= 40 /\ lm.pinkyCurl >= 40
      [] g = "open_palm" -> extendedCount(lm) >= 3
      [] g = "none" -> TRUE

FirstMatch(lm, twistActive) ==
    Priority[CHOOSE i \in DOMAIN Priority :
                /\ Matches(Priority[i], lm, twistActive)
                /\ \A j \in 1..(i - 1) : ~Matches(Priority[j], lm, twistActive)]

\* C16: the raw label a one-hand frame pushes into the stabilization buffer is
\* the first label, in the order pinch, fist, twist_pose, point, open_palm,
\* none, whose predicate the hand satisfies (twist_pose: the flag is active).
C16_FirstMatchWins ==
    [][ \A lm \in ClassifyFrames :
          (rafTurn = "detect" /\ recognizer' = recognize(recognizer, lm, now').r
             /\ ~obs'.fired)
          => recognizer'.gestureBuffer[Len(recognizer'.gestureBuffer)]
                = FirstMatch(lm, recognizer'.twistPoseActive) ]_vars

\* A closed hand with the thumb out, seen while the twist flag is active, was
\* labelled fist.
C16_Witness ==
    /\ rafTurn = "animate" /\ latestGestureData # << >>
    /\ recognizer.twistPoseActive
    /\ latestGestureData[1].fingerCurls # << >>
    /\ latestGestureData[1].fingerCurls[1].index = 100
    /\ latestGestureData[1].fingerCurls[1].thumbExtended
    /\ recognizer.gestureBuffer[Len(recognizer.gestureBuffer)] = "fist"

----------------------------------------------------------------------------
(* The two-hand signal, over the two-hand sessions.                          *)

RawLabel(r) == r.gestureBuffer[Len(r.gestureBuffer)]

\* C17: on a frame with two hands whose smoothed wrist-distance delta exceeds
\* 0.003 in magnitude the raw label is spread (delta positive) or squeeze
\* (delta negative) and the confidence min(1, 15 |delta|), whatever the shape
\* of the primary hand; otherwise the raw label is the single-hand
\* classification of the primary hand.
C17_TwoHandSignal ==
    [][ \A lm \in TwoHandFrames :
          (lm.n = 2 /\ rafTurn = "detect"
             /\ recognizer' = recognize(recognizer, lm, now').r
             /\ latestGestureData' = << recognize(recognizer, lm, now').out >>
             /\ ~obs'.fired)
          => IF Abs(latestGestureData'[1].twoHandDelta) > 3000
             THEN /\ RawLabel(recognizer') =
                        IF latestGestureData'[1].twoHandDelta > 0
                        THEN "spread" ELSE "squeeze"
                  /\ latestGestureData'[1].confidence =
                        Min(Micro, 15 * Abs(latestGestureData'[1].twoHandDelta))
             ELSE RawLabel(recognizer') = FirstMatch(lm, recognizer'.twistPoseActive) ]_vars

\* Two hands closing fast while the primary hand is a fist: the raw label is
\* squeeze, the confidence capped at 1.
C17_Witness ==
    /\ rafTurn = "animate" /\ latestGestureData # << >>
    /\ latestGestureData[1].handsDetected = 2
    /\ latestGestureData[1].twoHandDelta < -70000
    /\ latestGestureData[1].fingerCurls[1].index = 100
    /\ latestGestureData[1].confidence = Micro
    /\ RawLabel(recognizer) = "squeeze"

----------------------------------------------------------------------------
(* Reset sessions: a hand twisting back and forth in the twist pose, then    *)
(* held as a fist, with the arrow-right key selecting regions in between.    *)

MaxResetTicks == 9

ResetFrames == { << 160, Still(FistShape) >>,
                 << 100, Hand(TwistShape, 500000, 500000, 60000 * (ticks % 2), 0) >> }

NextReset ==
    \/ ticks < MaxResetTicks /\ \E f \in ResetFrames : Detect(f[1], f[2])
    \/ Animate(0)
    \/ rafTurn = "animate" /\ latestGestureData # << >>
       /\ brain.selectedIndex < 1 /\ KeyDown("ArrowRight")

SpecReset == Init /\ [][NextReset]_vars

\* The update that just ran fired the fist reset.
ResetFired == rafTurn = "detect" /\ obs.at = now /\ Called(obs.calls, "reset")

\* C18: when the fist reset fires, the update leaves the model with no
\* selected region, cursor index -1, target expansion 0, both rotation
\* targets 0 and idle mode on.
C18_FistResetClearsModel ==
    ResetFired
    => /\ brain.selectedId = << >>
       /\ brain.selectedIndex = -1
       /\ brain.targetExplosion = 0
       /\ brain.targetRotationX = 0
       /\ brain.targetRotationY = 0
       /\ brain.isIdle

\* The reset fired while the model was expanded for a selection: the parts
\* are still on their way back.
C18_Witness ==
    /\ ResetFired
    /\ brain.explosionAmount > 0

----------------------------------------------------------------------------
(* Coasting sessions: four frames of a hand twisting and sliding in the      *)
(* twist pose, then an open hand, a pointing hand or no hand at all.         *)

MaxCoastTicks == 10

TwistingTicks == 4

CoastFrames ==
    IF ticks < TwistingTicks
    THEN { Hand(TwistShape, 500000, 500000 + 10000 * ticks, 60000 * (ticks % 2), 0) }
    ELSE { Still(PalmShape), Still(PointShape), NoHands }

NextCoast ==
    \/ ticks < MaxCoastTicks /\ \E lm \in CoastFrames : Detect(50, lm)
    \/ Animate(0)

SpecCoast == Init /\ [][NextCoast]_vars

\* The render callback is about to hand the Controller a sample without
\* hands, or one labelled none, point or open_palm.
CoastFrame ==
    /\ rafTurn = "animate" /\ rafTurn' = "detect" /\ latestGestureData # << >>
    /\ \/ latestGestureData[1].handsDetected = 0
       \/ latestGestureData[1].gesture \in {"none", "point", "open_palm"}

Decayed(v) == v + Scale(0 - v, 15, 100)

\* C19: on a frame without hands and on every frame labelled none, point or
\* open_palm the update multiplies the smoothed tilt and the rotation velocity
\* by 0.85; the velocity is set to zero only when its decayed magnitude is not
\* above 0.00005.
C19_MomentumBleed ==
    [][ CoastFrame =>
          /\ controls'.smoothTiltDY = Decayed(controls.smoothTiltDY)
          /\ controls'.rotationVelocityY =
                IF Abs(Decayed(controls.rotationVelocityY)) > 50
                THEN Decayed(controls.rotationVelocityY) ELSE 0 ]_vars

\* An open hand was seen while the model was spinning and tilting: the update
\* left 0.85 of the momentum.
C19_Witness ==
    /\ rafTurn = "detect" /\ obs.at = now
    /\ obs.data # << >> /\ obs.data[1].gesture = "open_palm"
    /\ ~Called(obs.calls, "rotate")
    /\ Abs(controls.rotationVelocityY) > 50
    /\ controls.smoothTiltDY # 0

----------------------------------------------------------------------------
(* Sessions with malformed tracker results between the frames of a hand in   *)
(* the twist pose.  An exception that leaves recognize also leaves _detect   *)
(* before it re-registers itself: the tracker loop ends, the render loop     *)
(* goes on.                                                                  *)

MaxMalformedTicks == 5

ShortHand(points) == [kind |-> "hand", points |-> points, hand |-> Still(TwistShape)]

MalformedResults == { [kind |-> "null"], [kind |-> "noLandmarks"], [kind |-> "empty"],
                      ShortHand(0), ShortHand(9), ShortHand(19) }

NextMalformed ==
    \/ ticks < MaxMalformedTicks /\ ~thrown /\ Detect(80, Still(TwistShape))
    \/ ticks < MaxMalformedTicks /\ ~thrown
       /\ \E results \in MalformedResults : DetectMalformed(80, results)
    \/ DetectStopped
    \/ Animate(0)

SpecMalformed == Init /\ [][NextMalformed]_vars

\* C20: no exception leaves recognize, and a sample without hands is the none
\* sample and finds the recognizer state cleared.
C20_NeverFails ==
    /\ ~thrown
    /\ (rafTurn = "animate" /\ latestGestureData # << >>
        /\ latestGestureData[1].handsDetected = 0)
       => Cleared(recognizer) /\ latestGestureData[1] = EmptyOutput

----------------------------------------------------------------------------
(* Seam sessions: a hand in the twist pose whose palm axis (index knuckle to *)
(* pinky knuckle) points left, a little above or below the horizontal, flat  *)
(* left (atan2 gives pi) or flat right (atan2 gives 0).                      *)

MaxSeamTicks == 5

SeamAngles == { 3130000, -3130000, PI, 0 }

NextSeam ==
    \/ ticks < MaxSeamTicks
       /\ \E a \in SeamAngles : Detect(80, Hand(TwistShape, 500000, 500000, a, 0))
    \/ Animate(0)

SpecSeam == Init /\ [][NextSeam]_vars

\* The tracker callback that runs delivers a frame whose hand angle can be
\* compared with the angle of the frame before.
AngleStep ==
    /\ rafTurn = "detect" /\ rafTurn' = "animate"
    /\ recognizer.prevHandAngle # << >>
    /\ recognizer'.prevHandAngle # << >>

\* C21: when the hand angle crosses the seam at +-pi between two frames and
\* the two directions are less than 0.1 rad apart, the frame's palm-axis
\* delta is below 0.1 rad in magnitude.
C21_SeamCrossing ==
    [][ (AngleStep
         /\ (recognizer.prevHandAngle[1] > 0) # (recognizer'.prevHandAngle[1] > 0)
         /\ recognizer.prevHandAngle[1] # 0 /\ recognizer'.prevHandAngle[1] # 0
         /\ 2 * PI - Abs(recognizer'.prevHandAngle[1] - recognizer.prevHandAngle[1])
               < 100000)
        => Abs(latestGestureData'[1].rawHandAngleDelta) < 100000 ]_vars

\* The angle went from 3.13 to -3.13 and the frame reported 2 pi - 6.26.
C21_Witness ==
    /\ rafTurn = "animate" /\ latestGestureData # << >>
    /\ recognizer.prevHandAngle = << -3130000 >>
    /\ latestGestureData[1].rawHandAngleDelta = 2 * PI - 6260000

----------------------------------------------------------------------------
(* The twist-pose override, over the classification sessions.                *)

\* C22: on a frame with a hand, the twist flag active and a raw label outside
\* pinch, fist, spread, squeeze, swipe_left, swipe_right, the sample's gesture
\* is twist_pose whatever the stabilization buffer holds.
C22_TwistOverridesVote ==
    (rafTurn = "animate" /\ latestGestureData # << >>
     /\ latestGestureData[1].handsDetected > 0
     /\ recognizer.twistPoseActive
     /\ RawLabel(recognizer) \notin highPriority)
    => latestGestureData[1].gesture = "twist_pose"

\* The buffer holds three fists, a majority, and the sample is twist_pose.
C22_Witness ==
    /\ rafTurn = "animate" /\ latestGestureData # << >>
    /\ recognizer.twistPoseActive
    /\ RawLabel(recognizer) = "twist_pose"
    /\ CountOf(recognizer.gestureBuffer, "fist") >= stabilityThreshold
    /\ latestGestureData[1].gesture = "twist_pose"

----------------------------------------------------------------------------
(* Rotation sessions: a hand turning back and forth while sliding down the   *)
(* image, in the twist pose or pinching with the twist pose held.            *)

MaxSyncTicks == 7

SyncFrames ==
    { Hand(shape, 500000, 300000 + 10000 * ticks, 60000 * (ticks % 2), 60000 * (ticks % 2)) :
        shape \in {TwistShape, PinchTwistShape} }

NextSync ==
    \/ ticks < MaxSyncTicks /\ \E lm \in SyncFrames : Detect(80, lm)
    \/ Animate(0)

SpecSync == Init /\ [][NextSync]_vars

\* The update that is about to run applies twist rotation.
Rotates == rafTurn = "animate" /\ latestGestureData # << >>
           /\ Called(afterUpdate.calls, "rotate")

\* C23: an update that applies twist rotation leaves the model's rotation
\* targets equal to the Y and X rotation it wrote, and they are still equal
\* when the frame has been rendered.
C23_TargetsFollowRotation ==
    /\ Rotates => /\ afterUpdate.b.targetRotationY = afterUpdate.b.rotationY
                  /\ afterUpdate.b.targetRotationX = afterUpdate.b.rotationX
    /\ (rafTurn = "detect" /\ obs.at = now /\ Called(obs.calls, "rotate"))
       => /\ brain.targetRotationY = brain.rotationY
          /\ brain.targetRotationX = brain.rotationX

\* A pinch sample with the twist pose active turned and tilted the model.
C23_Witness ==
    /\ rafTurn = "detect" /\ obs.at = now /\ Called(obs.calls, "rotate")
    /\ obs.data[1].gesture = "pinch" /\ obs.data[1].twistPoseActive
    /\ controls.rotationVelocityY # 0
    /\ brain.rotationX # 0
    /\ brain.targetRotationY = brain.rotationY

----------------------------------------------------------------------------
(* The conditions of the swipe check, over the swipe sessions.               *)

\* The palm ring as _detectSwipe finds it on the frame being delivered.
RingAtCheck ==
    pushPalm(recognizer.palmHistory, latestGestureData'[1].handPosition[1], now')

\* The conditions of the claim, on the entries of the last 250 ms.
Qualifies(recent) ==
    /\ Len(recent) >= 4
    /\ recent[Len(recent)].time - recent[1].time >= 50
    /\ Abs(recent[Len(recent)].x - recent[1].x) * 1000
          > 800000 * (recent[Len(recent)].time - recent[1].time)
    /\ 2 * Abs(recent[Len(recent)].y - recent[1].y)
          < Abs(recent[Len(recent)].x - recent[1].x)

\* A tracker callback delivers a frame with one hand.
OneHandFrame ==
    /\ rafTurn = "detect" /\ rafTurn' = "animate"
    /\ tracker'.lastDetectTime = now'
    /\ latestGestureData' # << >>
    /\ latestGestureData'[1].handsDetected = 1

\* C24: the check of a frame fires exactly when 700 ms have passed since the
\* last firing and the ring entries of the last 250 ms are at least 4, span
\* at least 50 ms, move faster than 0.8 per second horizontally and less than
\* half as far vertically; nothing else about the ring matters.
C24_SwipeConditions ==
    [][ OneHandFrame =>
          (obs'.fired <=> /\ now' - recognizer.lastSwipeTime >= 700
                          /\ Qualifies(recentPalms(RingAtCheck, now'))) ]_vars

----------------------------------------------------------------------------
(* Two-hand swipe sessions: the primary hand jumps sideways while the        *)
(* distance between the two wrists changes.                                  *)

MaxSweepTicks == 6

SweepFrames ==
    { TwoHands(PalmShape, x, 500000, 0, 0, rawDist) :
        x \in {100000, 400000}, rawDist \in {300000, 600000} }

NextSweep ==
    \/ ticks < MaxSweepTicks /\ \E lm \in SweepFrames : Detect(80, lm)
    \/ Animate(0)

SpecSweep == Init /\ [][NextSweep]_vars

\* A tracker callback delivers a frame with at least one hand.
HandFrame ==
    /\ rafTurn = "detect" /\ rafTurn' = "animate"
    /\ tracker'.lastDetectTime = now'
    /\ latestGestureData' # << >>
    /\ latestGestureData'[1].handsDetected >= 1

\* What _detectSwipe returns for the ring of the frame being delivered.
CheckAtFrame ==
    detectSwipe([recognizer EXCEPT !.palmHistory = RingAtCheck], now').swipe

\* C25: on every frame with a hand the swipe check is made, whatever the
\* frame's label: the detector fires on the frame exactly when the check of
\* the frame's ring succeeds.
C25_SwipeCheckedEveryFrame ==
    [][ HandFrame => (obs'.fired <=> CheckAtFrame # << >>) ]_vars

----------------------------------------------------------------------------
(* Pinch instances held with the twist pose, over the pinch sessions.        *)

\* C26: while the label stays pinch without interruption the selection is
\* advanced at most once, also when the samples of the instance have
\* twistPoseActive set.
C26_PinchOnceWithTwist ==
    (obs.data # << >> /\ obs.data[1].gesture = "pinch") => obs.instAdvances <= 1

----------------------------------------------------------------------------
(* The range of wrapAngleDelta, over the seam sessions.                      *)

\* C27: the palm-axis delta of a frame, wrapAngleDelta of the difference of
\* two atan2 angles, lies in the half-open interval (-pi, pi] and differs from
\* that difference by 0 or by 2 pi either way.
C27_WrappedRange ==
    [][ AngleStep =>
          /\ latestGestureData'[1].rawHandAngleDelta > -PI
          /\ latestGestureData'[1].rawHandAngleDelta <= PI
          /\ latestGestureData'[1].rawHandAngleDelta
               - (recognizer'.prevHandAngle[1] - recognizer.prevHandAngle[1])
                 \in {0, 2 * PI, -(2 * PI)} ]_vars

----------------------------------------------------------------------------
(* Spike sessions: a hand in the twist pose whose palm axis is steady, with  *)
(* single frames on which the tracker reports it half a radian away.         *)

MaxSpikeTicks == 8

SpikeAngles == { 0, 500000 }

NextSpike ==
    \/ ticks < MaxSpikeTicks
       /\ \E a \in SpikeAngles : Detect(50, Hand(TwistShape, 500000, 500000, a, 0))
    \/ Animate(0)

SpecSpike == Init /\ [][NextSpike]_vars

\* The frame being delivered fills the window with six equal deltas followed
\* by one that is more than 0.08 away from them.
SpikeFrame ==
    /\ AngleStep
    /\ Len(recognizer'.angleDeltaHistory) = AngleHistoryMax
    /\ \A i \in 1..(AngleHistoryMax - 1) :
          recognizer'.angleDeltaHistory[i] = recognizer'.angleDeltaHistory[1]
    /\ Abs(recognizer'.angleDeltaHistory[AngleHistoryMax]
             - recognizer'.angleDeltaHistory[1]) > 80000

\* C28: on such a frame the newest delta is replaced by the window median, the
\* value of the other six, before the dead zone and the low-pass filter: the
\* filtered delta moves toward the median's cleaned value, not the spike's.
C28_SpikeRejected ==
    [][ SpikeFrame =>
          recognizer'.filteredHandAngleDelta =
              recognizer.filteredHandAngleDelta
                + Scale(deadZone(recognizer'.angleDeltaHistory[1],
                                 stdDev(recognizer'.angleDeltaHistory))
                          - recognizer.filteredHandAngleDelta, 34, 100) ]_vars

----------------------------------------------------------------------------
(* Hand-count sessions: two open hands near or far apart, one open hand, or  *)
(* no hand.                                                                  *)

MaxHandCountTicks == 5

HandCountFrames == { TwoHands(PalmShape, 500000, 500000, 0, 0, 300000),
                     TwoHands(PalmShape, 500000, 500000, 0, 0, 600000),
                     Still(PalmShape),
                     NoHands }

NextHandCount ==
    \/ ticks < MaxHandCountTicks /\ \E lm \in HandCountFrames : Detect(80, lm)
    \/ Animate(0)

SpecHandCount == Init /\ [][NextHandCount]_vars

\* C29: after a frame with fewer than two hands the smoothed two-hand
\* distance is uninitialised; a two-hand frame that finds it uninitialised
\* reports a two-hand delta of 0 and is not raw spread or squeeze.
C29_TwoHandRestart ==
    /\ []((rafTurn = "animate" /\ latestGestureData # << >>
           /\ latestGestureData[1].handsDetected < 2)
          => recognizer.smoothTwoHandDist = << >>)
    /\ [][ (HandFrame /\ recognizer.smoothTwoHandDist = << >>
            /\ latestGestureData'[1].handsDetected = 2)
           => /\ latestGestureData'[1].twoHandDelta = 0
              /\ RawLabel(recognizer') \notin {"spread", "squeeze"}
              /\ recognizer'.smoothTwoHandDist = latestGestureData'[1].twoHandDistance ]_vars

\* Two hands 0.6 apart are seen right after a frame with one hand, in a
\* session that has already had a spread: the delta is 0.
C29_Witness ==
    /\ rafTurn = "animate" /\ latestGestureData # << >>
    /\ latestGestureData[1].handsDetected = 2
    /\ latestGestureData[1].twoHandDistance = << 600000 >>
    /\ latestGestureData[1].twoHandDelta = 0
    /\ obs.data # << >> /\ obs.data[1].handsDetected = 1
    /\ CountOf(recognizer.gestureBuffer, "spread") > 0

----------------------------------------------------------------------------
(* Label sessions: one hand that pinches, makes a fist or opens, 400 ms      *)
(* between frames.                                                           *)

MaxLabelTicks == 8

LabelFrames == { Still(PinchShape), Still(FistShape), Still(PalmShape) }

NextLabel ==
    \/ ticks < MaxLabelTicks /\ \E lm \in LabelFrames : Detect(400, lm)
    \/ Animate(0)

SpecLabel == Init /\ [][NextLabel]_vars

\* A Controller update: animate() with a waiting sample.
Updates == rafTurn = "animate" /\ latestGestureData # << >>

\* C30: an update whose sample label differs from the Controller's label
\* clears the outgoing label's flag (pinch or fist), makes the sample label
\* current and sets the entry time to now; after every update gestureDuration
\* is now minus the entry time, 0 on a transition.
C30_LabelTransition ==
    [][ Updates
        => /\ controls'.gestureDuration = now' - controls'.gestureStartTime
           /\ latestGestureData[1].gesture # controls.currentGesture
              => /\ controls'.currentGesture = latestGestureData[1].gesture
                 /\ controls'.gestureStartTime = now'
                 /\ controls'.gestureDuration = 0
                 /\ controls.currentGesture = "pinch" => ~controls'.pinchTriggered
                 /\ controls.currentGesture = "fist" => ~controls'.fistTriggered ]_vars

\* A pinch that advanced the selection has just given way to a fist: the
\* fist's entry time is now and the pinch flag is clear.
C30_Witness ==
    /\ rafTurn = "detect"
    /\ obs.data # << >> /\ obs.data[1].gesture = "fist"
    /\ controls.currentGesture = "fist"
    /\ controls.gestureStartTime = now
    /\ controls.gestureDuration = 0
    /\ controls.lastPinchTime > 0
    /\ controls.lastFistTime = 0
    /\ ~controls.pinchTriggered

----------------------------------------------------------------------------
(* Pinch-and-turn sessions: a hand in the twist pose rolls back and forth    *)
(* and drifts down, then goes on doing so open, pinching, or pinching in    *)
(* the twist pose.                                                           *)

MaxPinchTurnTicks == 9

PinchTurnFrames ==
    { Hand(shape, 500000, 300000 + 10000 * ticks, 60000 * (ticks % 2), 60000 * (ticks % 2)) :
        shape \in IF ticks < TwistingTicks THEN {TwistShape}
                  ELSE {PalmShape, PinchShape, PinchTwistShape} }

NextPinchTurn ==
    \/ ticks < MaxPinchTurnTicks /\ \E lm \in PinchTurnFrames : Detect(50, lm)
    \/ Animate(0)

SpecPinchTurn == Init /\ [][NextPinchTurn]_vars

\* The render callback is about to hand the Controller a sample labelled pinch.
PinchFrame == Updates /\ latestGestureData[1].gesture = "pinch"

\* C31: an update labelled pinch applies twist rotation exactly when the
\* sample's twistPoseActive is true, and otherwise applies the decay step to
\* the rotation velocity and the smoothed tilt.
C31_PinchRotatesIffTwist ==
    [][ PinchFrame
        => /\ Called(obs'.calls, "rotate") <=> latestGestureData[1].twistPoseActive
           /\ latestGestureData[1].twistPoseActive
              => controls'.rotationVelocityY =
                    rampVelocity(controls.rotationVelocityY,
                                 latestGestureData[1].handAngleDelta)
           /\ ~latestGestureData[1].twistPoseActive
              => /\ controls'.smoothTiltDY = Decayed(controls.smoothTiltDY)
                 /\ controls'.rotationVelocityY =
                       IF Abs(Decayed(controls.rotationVelocityY)) > 50
                       THEN Decayed(controls.rotationVelocityY) ELSE 0
                 /\ brain'.rotationX = brain.rotationX ]_vars

\* A pinch whose twist pose has lapsed while the model was still spinning:
\* the update decayed the velocity instead of rotating.
C31_Witness ==
    /\ rafTurn = "detect" /\ obs.at = now
    /\ obs.data # << >> /\ obs.data[1].gesture = "pinch"
    /\ ~obs.data[1].twistPoseActive
    /\ ~Called(obs.calls, "rotate")
    /\ controls.rotationVelocityY # 0
    /\ obs.instTwist

----------------------------------------------------------------------------
(* Hand-off sessions: tracker callbacks 20 or 50 ms apart, so that some are  *)
(* throttled and produce no sample, each followed by a render tick.          *)

MaxHandoffTicks == 6

HandoffFrames == { Still(FistShape), NoHands }

HandoffPaces == { 20, 50 }

NextHandoff ==
    \/ ticks < MaxHandoffTicks
       /\ \E e \in HandoffPaces, lm \in HandoffFrames : Detect(e, lm)
    \/ Animate(0)

SpecHandoff == Init /\ [][NextHandoff]_vars

\* C32: no sample is waiting when the tracker callback runs, so none is
\* overwritten; a waiting sample leaves latestGestureData only by the render
\* tick that hands it to Controller.update, which then holds no sample; and
\* the Controller is updated only by a render tick that found a sample.
C32_SampleConsumedOnce ==
    /\ [](rafTurn = "detect" => latestGestureData = << >>)
    /\ [][ /\ (latestGestureData # << >> /\ latestGestureData' # latestGestureData)
              => /\ latestGestureData' = << >>
                 /\ obs'.data = latestGestureData
                 /\ obs'.at = now'
           /\ Updates => latestGestureData' # latestGestureData
           /\ (obs'.data # obs.data \/ obs'.at # obs.at \/ controls' # controls)
              => Updates ]_vars

\* A throttled tracker callback produced nothing after a sample with a hand
\* had been consumed: the render tick that followed it updated nothing.
C32_Witness ==
    /\ rafTurn = "detect"
    /\ latestGestureData = << >>
    /\ tracker.lastDetectTime < now
    /\ obs.data # << >> /\ obs.data[1].handsDetected = 1
    /\ obs.at = tracker.lastDetectTime
    /\ controls.lastActiveTime = obs.at

----------------------------------------------------------------------------
\* C33: an update whose sample is labelled swipe_left moves the selection
\* cursor one region forward, and one labelled swipe_right moves it one
\* region back.
C33_SwipeLeftAdvances ==
    [][ Updates
        => /\ latestGestureData[1].gesture = "swipe_left"
              => brain'.selectedIndex = (brain.selectedIndex + 1) % RegionCount
           /\ latestGestureData[1].gesture = "swipe_right"
              => brain'.selectedIndex =
                    (brain.selectedIndex - 1 + RegionCount) % RegionCount ]_vars

----------------------------------------------------------------------------
\* C34: the selection cursor is cyclic: selectNext from the last region
\* selects the first and selectPrevious from the first selects the last; from
\* no selection selectNext selects the first region and selectPrevious the
\* last; with a region selected, selectNext then selectPrevious, or the
\* reverse, restores the selection.
C34_CyclicCursor ==
    /\ brain.selectedIndex = RegionCount - 1
       => selectNext(brain).selectedId = << 0 >>
    /\ brain.selectedIndex = 0
       => selectPrevious(brain).selectedId = << RegionCount - 1 >>
    /\ brain.selectedIndex = -1
       => /\ selectNext(brain).selectedId = << 0 >>
          /\ selectPrevious(brain).selectedId = << RegionCount - 1 >>
    /\ brain.selectedIndex >= 0
       => /\ selectPrevious(selectNext(brain)) = brain
          /\ selectNext(selectPrevious(brain)) = brain

----------------------------------------------------------------------------
\* C35: a sample labelled twist_pose has twistPoseActive true, and an update
\* that applies twist rotation for that label consumed a sample whose
\* twistPoseActive is true.
C35_TwistLabelImpliesFlag ==
    /\ (latestGestureData # << >> /\ latestGestureData[1].gesture = "twist_pose")
       => latestGestureData[1].twistPoseActive
    /\ (obs.data # << >> /\ obs.data[1].gesture = "twist_pose"
          /\ Called(obs.calls, "rotate"))
       => obs.data[1].twistPoseActive

----------------------------------------------------------------------------
\* The waiting sample is of the first or the second frame with a hand after a
\* frame without hands: the buffer, which only a frame without hands empties,
\* holds fewer labels than there have been frames.
AfterLoss ==
    /\ rafTurn = "animate" /\ latestGestureData # << >>
    /\ latestGestureData[1].handsDetected > 0
    /\ Len(recognizer.gestureBuffer) <= 2
    /\ ticks > Len(recognizer.gestureBuffer)

\* C36: the sample of the first and of the second frame with a hand after a
\* frame without hands is labelled none or twist_pose, and its update makes
\* no selection move, reset or expansion.
C36_LabelDoesNotSurviveLoss ==
    AfterLoss
    => /\ latestGestureData[1].gesture \in {"none", "twist_pose"}
       /\ ~Called(afterUpdate.calls, "selectNext")
       /\ ~Called(afterUpdate.calls, "selectPrevious")
       /\ ~Called(afterUpdate.calls, "reset")
       /\ ~Called(afterUpdate.calls, "addExplosion")

----------------------------------------------------------------------------
\* C37: an update whose sample is labelled squeeze does not increase the
\* model's target expansion, and one labelled spread does not decrease it.
C37_ExpansionFollowsLabel ==
    [][ (Updates /\ rafTurn' = "detect")
        => /\ latestGestureData[1].gesture = "squeeze"
              => brain'.targetExplosion <= brain.targetExplosion
           /\ latestGestureData[1].gesture = "spread"
              => brain'.targetExplosion >= brain.targetExplosion ]_vars

----------------------------------------------------------------------------
(* Settling sessions: the twisting hand of the coasting sessions, then, in   *)
(* any order, open or pointing hands or no hand, and after that whatever the *)
(* last frame showed for as long as it takes the spin to die.  Both          *)
(* requestAnimationFrame loops keep being called back.                       *)

MaxSettleTicks == 50

MixedTicks == 3

SettleFrames ==
    IF ticks < TwistingTicks + MixedTicks THEN CoastFrames
    ELSE IF recognizer.gestureBuffer = << >> THEN { NoHands }
    ELSE IF RawLabel(recognizer) = "point" THEN { Still(PointShape) }
    ELSE { Still(PalmShape) }

NextSettle ==
    \/ ticks < MaxSettleTicks /\ \E lm \in SettleFrames : Detect(50, lm)
    \/ Animate(0)

\* A tracker callback of the session: enabled exactly when NextSettle's
\* first disjunct is, and every step of that disjunct is one.
TrackerCallback ==
    /\ rafTurn = "detect" /\ ticks < MaxSettleTicks
    /\ rafTurn' = "animate" /\ ticks' = ticks + 1

SpecSettle ==
    /\ Init /\ [][NextSettle]_vars
    /\ WF_vars(Animate(0))
    /\ WF_<<rafTurn, ticks>>(TrackerCallback)

\* C38: once the hand has stopped twisting and the frames are of open or
\* pointing hands or of no hand, the rotation velocity becomes exactly 0
\* within the frames of the session; and an update for a sample without hands
\* or labelled none, point or open_palm that finds the velocity 0 leaves it 0
\* and does not change the model's Y rotation.
C38_SpinDiesOut ==
    /\ (ticks = TwistingTicks) ~> (ticks > TwistingTicks /\ controls.rotationVelocityY = 0)
    /\ [][ (CoastFrame /\ controls.rotationVelocityY = 0)
           => /\ controls'.rotationVelocityY = 0
              /\ afterUpdate.b.rotationY = brain.rotationY ]_vars

\* The spin has died out after the twisting, many frames before the session
\* ends, and the last update, for an open hand, found the velocity 0.
C38_Witness ==
    /\ rafTurn = "detect" /\ obs.at = now
    /\ ticks > TwistingTicks /\ ticks < MaxSettleTicks
    /\ obs.data # << >> /\ obs.data[1].gesture = "open_palm"
    /\ controls.rotationVelocityY = 0
    /\ brain.rotationY # 0
    /\ brain.targetRotationY = brain.rotationY

----------------------------------------------------------------------------
(* Mixed sessions: a hand in the twist pose, a fist, a pinching hand, two    *)
(* open hands apart or close, and no hand for a short or a long while.       *)

MaxMixTicks == 5

MixFrames == { <<50, Still(TwistShape)>>, <<800, Still(FistShape)>>,
               <<120, Still(PinchShape)>>,
               <<50, TwoHands(PalmShape, 500000, 500000, 0, 0, 200000)>>,
               <<50, TwoHands(PalmShape, 500000, 500000, 0, 0, 1400000)>>,
               <<50, NoHands>>, <<2600, NoHands>> }

NextMix ==
    \/ ticks < MaxMixTicks /\ \E f \in MixFrames : Detect(f[1], f[2])
    \/ Animate(0)

SpecMix == Init /\ [][NextMix]_vars

\* The update that is running applies rotation, fires a pinch selection or
\* applies expansion.
Acts(calls) ==
    \/ Called(calls, "rotate")
    \/ Called(calls, "addExplosion")
    \/ latestGestureData[1].gesture = "pinch" /\ Called(calls, "selectNext")

\* C39 as stated: an update requests idle mode only for a sample without
\* hands more than 2500 ms after the last update with a hand, or when it
\* fires the fist reset; and every update that applies rotation, fires a pinch
\* selection or applies expansion requests setIdle(false).
C39_IdleAfterHandTimeout ==
    [][ (Updates /\ rafTurn' = "detect")
        => /\ Called(obs'.calls, "setIdle(true)")
              => \/ /\ latestGestureData[1].handsDetected = 0
                    /\ obs.lastHandAt # << >>
                    /\ now' - obs.lastHandAt[1] > idleTimeout
                 \/ Called(obs'.calls, "reset")
           /\ Acts(obs'.calls) => Called(obs'.calls, "setIdle(false)") ]_vars

\* C39, amended: idle mode is also requested for a sample without hands when
\* no update has had a hand yet.
C39_IdleAfterTimeoutOrNoHandYet ==
    [][ (Updates /\ rafTurn' = "detect")
        => /\ Called(obs'.calls, "setIdle(true)")
              => \/ /\ latestGestureData[1].handsDetected = 0
                    /\ \/ obs.lastHandAt = << >>
                       \/ now' - obs.lastHandAt[1] > idleTimeout
                 \/ Called(obs'.calls, "reset")
           /\ Acts(obs'.calls) => Called(obs'.calls, "setIdle(false)") ]_vars

\* No hand has been seen for more than 2500 ms after a pinch selection: the
\* update requested idle mode.
C39_Witness ==
    /\ rafTurn = "detect" /\ obs.at = now
    /\ obs.data # << >> /\ obs.data[1].handsDetected = 0
    /\ Called(obs.calls, "setIdle(true)")
    /\ obs.lastHandAt # << >> /\ now - obs.lastHandAt[1] > idleTimeout
    /\ controls.lastPinchTime > 0
    /\ brain.isIdle

----------------------------------------------------------------------------
\* The waiting sample is of a frame with a hand, whose raw label is the last
\* entry of the buffer.
LabelledFrame ==
    /\ rafTurn = "animate" /\ latestGestureData # << >>
    /\ latestGestureData[1].handsDetected > 0

\* C40: on a frame whose raw label is none, point or open_palm the twist-pose
\* flag is inactive; so whenever the flag is active and the raw label is not
\* one of the six shielded labels, the raw label is twist_pose already.
C40_OverrideOnlyOnTwist ==
    LabelledFrame
    => /\ RawLabel(recognizer) \in {"none", "point", "open_palm"}
          => (~latestGestureData[1].twistPoseActive /\ ~recognizer.twistPoseActive)
       /\ (recognizer.twistPoseActive /\ RawLabel(recognizer) \notin highPriority)
          => RawLabel(recognizer) = "twist_pose"

\* A pointing hand seen while the flag is held by the hysteresis band (score
\* 0.52, between exit and enter): its raw label is twist_pose, not point.
C40_Witness ==
    /\ LabelledFrame
    /\ latestGestureData[1].twistPoseActive
    /\ latestGestureData[1].twistPoseScore < twistPoseEnterThreshold
    /\ latestGestureData[1].fingerCurls # << >>
    /\ latestGestureData[1].fingerCurls[1].index = 0
    /\ RawLabel(recognizer) = "twist_pose"
    /\ latestGestureData[1].gesture = "twist_pose"

====
